---------------------------- MODULE Spec2Model ----------------------------
(***************************************************************************)
(* Bounded lock-free queues of the MultiTools repository.                  *)
(*                                                                         *)
(*   - SPSCQueue          src/spsc/spsc.h (and its older twin src/spsc.h)  *)
(*   - sharded MPSCQueue  src/MPSC.h                                       *)
(*   - slot-seq MPSCQueue src/mpsc/seq_mpsc.h                              *)
(*   - ring MPSCQueue     src/mpsc/ringbuffer_based_mpsc.h                 *)
(*   - Reorderer          src/mpsc/mpsc_seq.cpp                            *)
(*                                                                         *)
(* Threads are interleaved at the granularity of one access to shared      *)
(* memory: a load or store of an atomic index, or the copy of one buffer   *)
(* cell.  Accesses to fields only one thread touches (the producer's own   *)
(* head and cached_tail, the consumer's own tail and cached_head) are      *)
(* folded into the neighbouring step.  The interleaving is sequentially    *)
(* consistent: the index loads are acquire (relaxed only in the x86-64     *)
(* build, where the hardware keeps a load ahead of the stores behind it),  *)
(* the index stores are release.                                           *)
(***************************************************************************)
EXTENDS Integers, Sequences, FiniteSets, TLC

\* ------------------------------------------------------------------ sizes

\* SPSCQueue<int, 4>: the ring of the boundary test.  A power of two >= 2
\* (static_assert), so that `& mask()` is `% Capacity`.
Capacity == 4

\* The producer's input stream is 1, 2, ..., MaxVal; then it stops.
MaxVal == 6

\* Largest count handed to push_bulk / pop_bulk (larger than capacity()).
MaxBatch == 4

\* MPSCQueue<int, 1024, 2>: the number of shards of the sharded queue.
MaxProducers == 2

\* Cells of one shard (the Capacity argument of MPSCQueue), a power of two.
ShardCapacity == Capacity

\* Threads that may push to the sharded queue.
MaxThreads == 3

\* Each pushing thread pushes its own items 1..MaxItems, retrying on false.
MaxItems == 4

Min(a, b) == IF a < b THEN a ELSE b

\* --------------------------------------------------------------- SPSC ring
\* A queue object q is a record
\*   [cap, head, cached_tail, tail, cached_head, buffer]
\* (prod_.head, prod_.cached_tail, cons_.tail, cons_.cached_head, buffer_).
\* Cell value 0 stands for the indeterminate content of a cell never written.

NewSPSC(cap) ==
    [cap |-> cap, head |-> 0, cached_tail |-> 0, tail |-> 0, cached_head |-> 0,
     buffer |-> [i \in 0..(cap - 1) |-> 0]]

nextIndex(q, idx) == (idx + 1) % q.cap

nextIndexBy(q, idx, offset) == (idx + offset) % q.cap

\* (bug variant: the reserved cell is not subtracted)
available_space_NoReserve(q, head, tail) == (q.cap + tail - head) % q.cap

available_space(q, head, tail) == (q.cap + tail - head - 1) % q.cap

capacity(q) == q.cap - 1

\* (bug variant: the wrapped formula is used on every path)
size_of_NoBranch(q, head, tail) == q.cap - tail + head

size_of(q, head, tail) == IF head >= tail THEN head - tail ELSE q.cap - tail + head

empty(q) == q.head = q.tail

\* The cell the i-th element (i = 0, 1, ...) of a bulk copy of `count`
\* elements starting at index `start` goes to or comes from: one span, or two
\* spans split at the end of the array.
BulkCell(q, start, count, i) ==
    LET end_of_buffer == q.cap - start
    IN  IF count <= end_of_buffer
        THEN start + i
        ELSE LET part1 == end_of_buffer
             IN  IF i < part1 THEN start + i ELSE i - part1

\* ----- push(value): the steps of one call.  Each returns the pc it moves to
\* and what it changes.

\* entry: load own head, compare next_head with the cached tail
PushEntryPc(q) ==
    IF nextIndex(q, q.head) = q.cached_tail THEN "push_refresh" ELSE "push_write"

\* refresh: cached_tail = tail.load(); next_head still equal to it -> return false
\* (bug variant: head is advanced before the ring is known to have room)
PushRefreshQ_EarlyPublish(q) ==
    [q EXCEPT !.cached_tail = q.tail, !.head = nextIndex(q, q.head)]

PushRefreshQ(q) == [q EXCEPT !.cached_tail = q.tail]

\* (bug variants: the full test is skipped; the full test is off by one)
PushRefreshFull_Never(qn, next_head) == FALSE

PushRefreshFull_OffByOne(qn, next_head) == nextIndex(qn, next_head) = qn.cached_tail

PushRefreshFull(qn, next_head) == next_head = qn.cached_tail

\* buffer_[head] = value
PushWriteQ(q, head, v) == [q EXCEPT !.buffer[head] = v]

\* head.store(next_head)
PushStoreQ(q, next_head) == [q EXCEPT !.head = next_head]

\* ----- pop(value)

PopEntryPc(q) ==
    IF q.tail = q.cached_head THEN "pop_refresh" ELSE "pop_read"

\* (bug variant: the cell is released before the ring is known to hold one)
PopRefreshQ_EarlyRelease(q) ==
    [q EXCEPT !.cached_head = q.head, !.tail = nextIndex(q, q.tail)]

PopRefreshQ(q) == [q EXCEPT !.cached_head = q.head]

\* (bug variant: the empty test is skipped)
PopRefreshEmpty_Never(qn, tail) == FALSE

PopRefreshEmpty(qn, tail) == tail = qn.cached_head

PopReadCell(q, tail) == q.buffer[tail]

PopStoreQ(q, tail) == [q EXCEPT !.tail = nextIndex(q, tail)]

\* ----- push_bulk(src, max_count)

PushBulkAvail(q, head) == available_space(q, head, q.cached_tail)

\* (bug variant: the refreshed cached tail is one cell ahead of tail)
PushBulkRefreshQ_Ahead(q) == [q EXCEPT !.cached_tail = nextIndex(q, q.tail)]

PushBulkRefreshQ(q) == [q EXCEPT !.cached_tail = q.tail]

PushBulkStoreQ(q, head, can_write) ==
    [q EXCEPT !.head = nextIndexBy(q, head, can_write)]

\* ----- pop_bulk(dst, max_count)

\* (bug variant: the readable count is taken like the writable count)
PopBulkAvail_NoPlusOne(q, tail) == available_space(q, tail, q.cached_head)

PopBulkAvail(q, tail) == available_space(q, tail, q.cached_head + 1)

PopBulkRefreshQ(q) == [q EXCEPT !.cached_head = q.head]

PopBulkStoreQ(q, tail, can_read) ==
    [q EXCEPT !.tail = nextIndexBy(q, tail, can_read)]


\* ------------------------------------------------------------- SPSC threads
VARIABLES
    q,          \* the SPSCQueue object
    p,          \* producer thread: position in its call and the call's locals
    c,          \* consumer thread: position, locals, the caller's out variables
    next_val,   \* next value of the producer's input stream
    accepted,   \* history: values of the pushes that succeeded, in order
    popped,     \* history: values the pops returned, in order
    p_entry,    \* history: what the producer's current/last call found on entry
    c_entry,    \* history: what the consumer's current/last call found on entry
    run,        \* history: pushes accepted since the ring was last empty with
                \*          no pop since; -1 when a pop came in between
    obs         \* a thread calling size()

spsc_vars == <<q, p, c, next_val, accepted, popped, p_entry, c_entry, run, obs>>

\* the sharded MPSCQueue and its threads
VARIABLES
    queues_,                \* the shards, SPSCQueue objects
    producer_counter_,      \* atomic: pushing threads registered so far
    consumer_round_robin_,  \* atomic: shard the next pop starts at
    my_queue_id_,           \* thread_local, per thread
    queue_assigned_,        \* thread_local, per thread
    nthreads,               \* number of threads that push
    mp,                     \* pushing threads: position and locals of the call
    mc,                     \* consumer thread: position and locals of the call
    m_next,                 \* per thread: the item it pushes next
    m_accepted,             \* history, per thread: values its pushes got accepted
    m_popped,               \* history: values the pops returned, in order
    mp_entry,               \* history, per thread: its shard on entry of the call
    mc_entry                \* history: what the consumer's call found on entry

mpsc_vars == <<queues_, producer_counter_, consumer_round_robin_, my_queue_id_,
               queue_assigned_, nthreads, mp, mc, m_next, m_accepted, m_popped,
               mp_entry, mc_entry>>

\* the consumer of the sharded queue inside pop_bulk, and its bookkeeping
VARIABLES
    mb,                 \* consumer thread: position and locals of pop_bulk
    prefill,            \* history, per shard: values it held in the first state
    waited,             \* history, per shard: successful consumer calls in a row
                        \*   that began with the shard non-empty and took
                        \*   nothing from it; -1 where this is not recorded
    nonempty_at_entry   \* history: shards non-empty when the call began

bulk_vars == <<mb, prefill, waited, nonempty_at_entry>>

\* the slot-sequence MPSCQueue (mpsc/seq_mpsc.h) and its threads
VARIABLES
    slots,          \* buffer_: per slot its seq and its data
    size_,          \* atomic: pushes published minus pops taken
    global_seq,     \* atomic: the counter of the pushes without a seq
    expect_next_,   \* the sequence the consumer pops next
    sp,             \* pushing threads: position and locals of the call
    sc,             \* consumer thread: position and locals of the call
    plan,           \* per thread: the sequences it still pushes, in order
    sq_in,          \* what the threads were given to push: gap, the sequence
                    \*   no thread ever pushes (-1: none), and every thread's plan
    sq_given,       \* history: per sequence the payload pushed with it (0: none)
    sq_popped,      \* history: payloads the pops returned, in order
    sc_entry        \* history: what the consumer's call found on entry

seq_vars == <<slots, size_, global_seq, expect_next_, sp, sc, plan, sq_in,
              sq_given, sq_popped, sc_entry>>

\* the ring MPSCQueue with claimed positions (mpsc/ringbuffer_based_mpsc.h)
\* and its threads
VARIABLES
    buffer_,            \* per slot its data
    tail_,              \* atomic: the next position a push claims
    head_,              \* atomic: the next position the consumer pops
    sequences_,         \* atomic, per slot: the position it is ready for
    tls_cached_head_,   \* thread_local, per thread: head_ as last loaded
    rp,                 \* pushing threads: position and locals of the call
    rc,                 \* consumer: position and locals of the call
    r_limit,            \* pushes every thread makes until they have succeeded
    r_sent,             \* history, per thread: pushes that returned true
    r_claim,            \* history: per claimed position the value of its push
    r_returned,         \* history: values whose push has returned true
    r_popped,           \* history: values the pops returned, in order
    r_last              \* history: the caller of the latest call (0: the
                        \*   consumer, -1: no call yet)

ring_vars == <<buffer_, tail_, head_, sequences_, tls_cached_head_, rp, rc,
               r_limit, r_sent, r_claim, r_returned, r_popped, r_last>>

\* the Reorderer (mpsc/mpsc_seq.cpp), its worker thread, the thread calling
\* get_next and the thread destroying it
VARIABLES
    source_queue_,          \* the messages the source queue still delivers,
                            \*   in the order its pops deliver them
    fast_buffer_,           \* per slot: valid and the seq of its data
    overflow_buffer_,       \* the keys of the map (each maps to its message)
    next_expected_seq_,     \* the sequence emitted next
    output_queue_,          \* an SPSCQueue object
    stop_,                  \* atomic flag
    processed_count_,       \* debug counters
    direct_hit_count_,
    l1_cached_count_,
    l2_cached_count_,
    max_disordered_count_,
    rw,                     \* worker thread: position and locals
    dtor,                   \* the destructor: "none", "joining", "joined"
    reo_in,                 \* history: how many messages the source queue held
    out_pushed,             \* history: sequences pushed into output_queue_
    got                     \* history: sequences get_next returned, in order

reo_vars == <<source_queue_, fast_buffer_, overflow_buffer_, next_expected_seq_,
              output_queue_, stop_, processed_count_, direct_hit_count_,
              l1_cached_count_, l2_cached_count_, max_disordered_count_,
              rw, dtor, reo_in, out_pushed, got>>

\* the SeqMpsc pipeline (mpsc/mpsc_seq.cpp): its produce thread, its consume
\* threads, the thread destroying it, and the worker of its Reorderer as
\* far as it takes messages out of queue_
VARIABLES
    pipeline_stop_,     \* SeqMpsc::stop_, atomic flag
    spsc_queues_,       \* per consume thread an SPSCQueue object
    queue_,             \* the MPSCQueue object: shards, producer_counter_,
                        \*   consumer_round_robin_
    pt,                 \* produce thread: position and locals
    ct,                 \* consume threads: position, locals, and the
                        \*   thread_local shard of queue_
    pipe_dtor,          \* ~SeqMpsc: "none", "joining", "joined"
    reorder_blocked     \* the Reorderer's worker spins in output_data on a
                        \*   full output queue that nobody empties any more

pipe_vars == <<pipeline_stop_, spsc_queues_, queue_, pt, ct, pipe_dtor,
               reorder_blocked>>

\* what the steps of one queue leave alone
outside_spsc == <<mpsc_vars, bulk_vars, seq_vars, ring_vars, reo_vars, pipe_vars>>

outside_mpsc == <<spsc_vars, seq_vars, ring_vars, reo_vars, pipe_vars>>

outside_seq == <<spsc_vars, mpsc_vars, bulk_vars, ring_vars, reo_vars, pipe_vars>>

outside_ring == <<spsc_vars, mpsc_vars, bulk_vars, seq_vars, reo_vars, pipe_vars>>

outside_reo == <<spsc_vars, mpsc_vars, bulk_vars, seq_vars, ring_vars, pipe_vars>>

outside_pipe == <<spsc_vars, mpsc_vars, bulk_vars, seq_vars, ring_vars, reo_vars>>

PIdle == [pc |-> "idle", op |-> "none", head |-> 0, next_head |-> 0, val |-> 0,
          max_count |-> 0, can_write |-> 0, i |-> 0, ret |-> FALSE, cnt |-> 0]

CIdle == [pc |-> "idle", op |-> "none", tail |-> 0, max_count |-> 0,
          can_read |-> 0, i |-> 0, ret |-> FALSE, cnt |-> 0,
          value |-> 0, dst |-> [j \in 0..(MaxBatch - 1) |-> 0]]

OIdle == [pc |-> "idle", head |-> 0, tail |-> 0, ret |-> 0]

PSnap(k) ==
    [head |-> q.head, cached_tail |-> q.cached_tail, buffer |-> q.buffer,
     accepted |-> accepted, size |-> (q.head - q.tail) % q.cap, clean |-> TRUE,
     k |-> k, src0 |-> next_val]

CSnap(k) ==
    [tail |-> q.tail, cached_head |-> q.cached_head, value |-> c.value,
     after_stop |-> (p.pc = "idle" /\ next_val > MaxVal), k |-> k]

SPSCInit ==
    /\ q = NewSPSC(Capacity)
    /\ p = PIdle
    /\ c = CIdle
    /\ next_val = 1
    /\ accepted = <<>>
    /\ popped = <<>>
    /\ p_entry = [head |-> 0, cached_tail |-> 0, buffer |-> [i \in 0..(Capacity - 1) |-> 0],
                  accepted |-> <<>>, size |-> 0, clean |-> TRUE, k |-> 0, src0 |-> 1]
    /\ c_entry = [tail |-> 0, cached_head |-> 0, value |-> 0, after_stop |-> FALSE, k |-> 0]
    /\ run = 0
    /\ obs = OIdle

\* src[i] of the array handed to push_bulk: the next values of the stream.
Src(i) == next_val + i

\* A consumer step that stores tail ends every "no intervening pop" stretch.
RunAfterPop(qn) == IF qn.head = qn.tail THEN 0 ELSE -1

PReturn(op, ret, cnt) == [PIdle EXCEPT !.op = op, !.ret = ret, !.cnt = cnt]

CReturn(op, ret, cnt, value, dst) ==
    [CIdle EXCEPT !.op = op, !.ret = ret, !.cnt = cnt, !.value = value, !.dst = dst]

\* --- producer: push(value)                                  spsc.h 97-125
Push ==
    /\ p.pc = "idle" /\ next_val <= MaxVal
    /\ p' = [PIdle EXCEPT !.pc = PushEntryPc(q), !.op = "push", !.head = q.head,
                          !.next_head = nextIndex(q, q.head), !.val = next_val]
    /\ p_entry' = PSnap(1)
    /\ UNCHANGED <<q, c, next_val, accepted, popped, c_entry, run, obs>>
    /\ UNCHANGED outside_spsc

PushRefresh ==
    /\ p.pc = "push_refresh"
    /\ q' = PushRefreshQ(q)
    /\ p' = IF PushRefreshFull(q', p.next_head)
            THEN PReturn("push", FALSE, 0)
            ELSE [p EXCEPT !.pc = "push_write"]
    /\ UNCHANGED <<c, next_val, accepted, popped, p_entry, c_entry, run, obs>>
    /\ UNCHANGED outside_spsc

PushWrite ==
    /\ p.pc = "push_write"
    /\ q' = PushWriteQ(q, p.head, p.val)
    /\ p' = [p EXCEPT !.pc = "push_store"]
    /\ UNCHANGED <<c, next_val, accepted, popped, p_entry, c_entry, run, obs>>
    /\ UNCHANGED outside_spsc

PushStore ==
    /\ p.pc = "push_store"
    /\ q' = PushStoreQ(q, p.next_head)
    /\ p' = PReturn("push", TRUE, 1)
    /\ accepted' = Append(accepted, p.val)
    /\ next_val' = next_val + 1
    /\ run' = IF run >= 0 THEN run + 1 ELSE -1
    /\ UNCHANGED <<c, popped, p_entry, c_entry, obs>>
    /\ UNCHANGED outside_spsc

\* --- producer: push_bulk(src, max_count)                    spsc.h 171-219
\* after `available` is known: can_write = min(max_count, available)
PushBulkDecide(l, available) ==
    LET can_write == Min(l.max_count, available)
    IN  IF can_write = 0
        THEN PReturn("push_bulk", FALSE, 0)
        ELSE [l EXCEPT !.pc = "bulk_write", !.can_write = can_write, !.i = 0]

PushBulk ==
    /\ p.pc = "idle" /\ next_val <= MaxVal
    /\ \E k \in 0..Min(MaxBatch, MaxVal - next_val + 1) :
         LET l == [PIdle EXCEPT !.op = "push_bulk", !.head = q.head, !.max_count = k]
             available == PushBulkAvail(q, q.head)
         IN  /\ p' = IF available < k
                       THEN [l EXCEPT !.pc = "bulk_refresh"]
                       ELSE PushBulkDecide(l, available)
             /\ p_entry' = PSnap(k)
    /\ UNCHANGED <<q, c, next_val, accepted, popped, c_entry, run, obs>>
    /\ UNCHANGED outside_spsc

PushBulkRefresh ==
    /\ p.pc = "bulk_refresh"
    /\ q' = PushBulkRefreshQ(q)
    /\ p' = PushBulkDecide(p, available_space(q, p.head, q'.cached_tail))
    /\ UNCHANGED <<c, next_val, accepted, popped, p_entry, c_entry, run, obs>>
    /\ UNCHANGED outside_spsc

PushBulkWrite ==
    /\ p.pc = "bulk_write"
    /\ q' = PushWriteQ(q, BulkCell(q, p.head, p.can_write, p.i), Src(p.i))
    /\ p' = [p EXCEPT !.i = p.i + 1,
                      !.pc = IF p.i + 1 = p.can_write THEN "bulk_store" ELSE "bulk_write"]
    /\ UNCHANGED <<c, next_val, accepted, popped, p_entry, c_entry, run, obs>>
    /\ UNCHANGED outside_spsc

PushBulkStore ==
    /\ p.pc = "bulk_store"
    /\ q' = PushBulkStoreQ(q, p.head, p.can_write)
    /\ p' = PReturn("push_bulk", TRUE, p.can_write)
    /\ accepted' = accepted \o [j \in 1..p.can_write |-> Src(j - 1)]
    /\ next_val' = next_val + p.can_write
    /\ run' = IF run >= 0 THEN run + p.can_write ELSE -1
    /\ UNCHANGED <<c, popped, p_entry, c_entry, obs>>
    /\ UNCHANGED outside_spsc

\* --- consumer: pop(value)                                   spsc.h 135-168
Pop ==
    /\ c.pc = "idle"
    /\ c' = [CIdle EXCEPT !.pc = PopEntryPc(q), !.op = "pop", !.tail = q.tail,
                          !.value = c.value]
    /\ c_entry' = CSnap(1)
    /\ UNCHANGED <<q, p, next_val, accepted, popped, p_entry, run, obs>>
    /\ UNCHANGED outside_spsc

PopRefresh ==
    /\ c.pc = "pop_refresh"
    /\ q' = PopRefreshQ(q)
    /\ c' = IF PopRefreshEmpty(q', c.tail)
            THEN CReturn("pop", FALSE, 0, c.value, c.dst)
            ELSE [c EXCEPT !.pc = "pop_read"]
    /\ UNCHANGED <<p, next_val, accepted, popped, p_entry, c_entry, run, obs>>
    /\ UNCHANGED outside_spsc

PopRead ==
    /\ c.pc = "pop_read"
    /\ c' = [c EXCEPT !.value = PopReadCell(q, c.tail), !.pc = "pop_store"]
    /\ UNCHANGED <<q, p, next_val, accepted, popped, p_entry, c_entry, run, obs>>
    /\ UNCHANGED outside_spsc

PopStore ==
    /\ c.pc = "pop_store"
    /\ q' = PopStoreQ(q, c.tail)
    /\ c' = CReturn("pop", TRUE, 1, c.value, c.dst)
    /\ popped' = Append(popped, c.value)
    /\ run' = RunAfterPop(q')
    /\ p_entry' = [p_entry EXCEPT !.clean = FALSE]
    /\ UNCHANGED <<p, next_val, accepted, c_entry, obs>>
    /\ UNCHANGED outside_spsc

\* --- consumer: pop_bulk(dst, max_count)                     spsc.h 222-271
PopBulkDecide(l, available) ==
    LET can_read == Min(l.max_count, available)
    IN  IF can_read = 0
        THEN CReturn("pop_bulk", FALSE, 0, l.value, l.dst)
        ELSE [l EXCEPT !.pc = "bulk_read", !.can_read = can_read, !.i = 0]

PopBulk ==
    /\ c.pc = "idle"
    /\ \E k \in 0..MaxBatch :
         LET l == [CIdle EXCEPT !.op = "pop_bulk", !.tail = q.tail, !.max_count = k,
                                !.value = c.value]
             available == PopBulkAvail(q, q.tail)
         IN  /\ c' = IF available < k
                       THEN [l EXCEPT !.pc = "bulk_refresh"]
                       ELSE PopBulkDecide(l, available)
             /\ c_entry' = CSnap(k)
    /\ UNCHANGED <<q, p, next_val, accepted, popped, p_entry, run, obs>>
    /\ UNCHANGED outside_spsc

PopBulkRefresh ==
    /\ c.pc = "bulk_refresh"
    /\ q' = PopBulkRefreshQ(q)
    /\ c' = PopBulkDecide(c, available_space(q, c.tail, q'.cached_head + 1))
    /\ UNCHANGED <<p, next_val, accepted, popped, p_entry, c_entry, run, obs>>
    /\ UNCHANGED outside_spsc

PopBulkRead ==
    /\ c.pc = "bulk_read"
    /\ c' = [c EXCEPT !.dst[c.i] = PopReadCell(q, BulkCell(q, c.tail, c.can_read, c.i)),
                      !.i = c.i + 1,
                      !.pc = IF c.i + 1 = c.can_read THEN "bulk_store" ELSE "bulk_read"]
    /\ UNCHANGED <<q, p, next_val, accepted, popped, p_entry, c_entry, run, obs>>
    /\ UNCHANGED outside_spsc

PopBulkStore ==
    /\ c.pc = "bulk_store"
    /\ q' = PopBulkStoreQ(q, c.tail, c.can_read)
    /\ c' = CReturn("pop_bulk", TRUE, c.can_read, c.value, c.dst)
    /\ popped' = popped \o [j \in 1..c.can_read |-> c.dst[j - 1]]
    /\ run' = RunAfterPop(q')
    /\ p_entry' = [p_entry EXCEPT !.clean = FALSE]
    /\ UNCHANGED <<p, next_val, accepted, c_entry, obs>>
    /\ UNCHANGED outside_spsc

\* --- any thread: size()                                     spsc.h 278-282
SizeLoadHead ==
    /\ obs.pc \in {"idle", "done"}
    /\ obs' = [pc |-> "loaded_head", head |-> q.head, tail |-> 0, ret |-> 0]
    /\ UNCHANGED <<q, p, c, next_val, accepted, popped, p_entry, c_entry, run>>
    /\ UNCHANGED outside_spsc

SizeLoadTail ==
    /\ obs.pc = "loaded_head"
    /\ obs' = [pc |-> "done", head |-> obs.head, tail |-> q.tail,
                ret |-> size_of(q, obs.head, q.tail)]
    /\ UNCHANGED <<q, p, c, next_val, accepted, popped, p_entry, c_entry, run>>
    /\ UNCHANGED outside_spsc


\* ------------------------------------------------------------ sharded MPSC

Threads == 1..MaxThreads

Shards == 0..(MaxProducers - 1)

\* IntPair(p, i) of the ordering test, as one number
Val(t, i) == t * (MaxItems + 1) + i

ProducerOf(v) == v \div (MaxItems + 1)

MPIdle == [pc |-> "idle", head |-> 0, next_head |-> 0, val |-> 0, ret |-> FALSE,
           calls |-> 0]

MCIdle == [pc |-> "idle", start_idx |-> 0, i |-> 0, queue_idx |-> 0, tail |-> 0,
           value |-> 0, ret |-> FALSE, calls |-> 0, skipped_nonempty |-> FALSE]

\* pop_bulk's locals; visits: per round, the shard, total_popped before
\* the round and the elements the round took
MBIdle == [pc |-> "idle", max_items |-> 0, total_popped |-> 0, start_idx |-> 0,
           round |-> 0, queue_idx |-> 0, batch_size |-> 0, i |-> 0, tail |-> 0,
           value |-> 0, ret |-> 0, calls |-> 0, visits |-> <<>>]

\* the fields of a shard only its producer writes / only the consumer writes
ProducerSide(qq) == [head |-> qq.head, cached_tail |-> qq.cached_tail, buffer |-> qq.buffer]

ConsumerSide(qq) == [tail |-> qq.tail, cached_head |-> qq.cached_head]

MCSnap ==
    [rr |-> consumer_round_robin_, shards |-> [s \in Shards |-> ConsumerSide(queues_[s])],
     popped |-> m_popped, value |-> mc.value,
     after_stop |-> \A t \in 1..nthreads : mp[t].pc = "idle" /\ m_next[t] > MaxItems]

\* a new queue; ids, assigned: the threads' thread_local my_queue_id_ and
\* queue_assigned_, which belong to the template type, not to the object;
\* first: the number of the first item each thread pushes (it pushes the
\* items first .. MaxItems); cap: the cells of a shard
MPSCInitWith(ids, assigned, first, cap) ==
    /\ queues_ = [s \in Shards |-> NewSPSC(cap)]
    /\ producer_counter_ = 0
    /\ consumer_round_robin_ = 0
    /\ my_queue_id_ = ids
    /\ queue_assigned_ = assigned
    /\ mp = [t \in Threads |-> MPIdle]
    /\ mc = MCIdle
    /\ m_next = [t \in Threads |-> first]
    /\ m_accepted = [t \in Threads |-> <<>>]
    /\ m_popped = <<>>
    /\ mp_entry = [t \in Threads |-> ProducerSide(NewSPSC(cap))]
    /\ mc_entry = [rr |-> 0,
                   shards |-> [s \in Shards |-> ConsumerSide(NewSPSC(cap))],
                   popped |-> <<>>, value |-> 0, after_stop |-> FALSE]

\* the first queue of its type in the process: no thread has a shard yet
MPSCInit ==
    MPSCInitWith([t \in Threads |-> 0], [t \in Threads |-> FALSE], 1, ShardCapacity)

\* the consumer is not in pop_bulk; the calls' bookkeeping is off
BulkOff ==
    /\ mb = MBIdle
    /\ prefill = [s \in Shards |-> <<>>]
    /\ waited = [s \in Shards |-> -1]
    /\ nonempty_at_entry = {}

\* --- bookkeeping of the consumer's calls (pop and pop_bulk)
\* shards that hold an element when a consumer call begins
EntryNonempty ==
    IF waited[0] < 0 THEN nonempty_at_entry
    ELSE {s \in Shards : ~empty(queues_[s])}

\* a consumer call that took elements from the shards in `served` returns
WaitedAfter(served) ==
    [s \in Shards |->
        IF waited[s] < 0 THEN waited[s]
        ELSE IF s \in served THEN 0
        ELSE IF s \in nonempty_at_entry THEN waited[s] + 1
        ELSE 0]

\* shard of the thread that draws r from producer_counter_
\* (bug variant: the counter is not used)
AssignedShard_AllZero(r) == 0

AssignedShard(r) == r % MaxProducers

\* (bug variant: a thread whose shard is full spills into the next shard)
ShardOf_Spill(t) ==
    LET own == queues_[my_queue_id_[t]]
    IN  IF (own.head - own.tail) % own.cap = capacity(own)
        THEN (my_queue_id_[t] + 1) % MaxProducers
        ELSE my_queue_id_[t]

\* queues_[my_queue_id_]: the shard a push of thread t goes to
ShardOf(t) == my_queue_id_[t]

\* --- pushing thread t: push(value)                            MPSC.h 30-47
\* first push of the thread: fetch_add on producer_counter_
MPush(t) ==
    /\ mp[t].pc = "idle" /\ m_next[t] <= MaxItems
    /\ IF ~queue_assigned_[t]
       THEN /\ my_queue_id_' = [my_queue_id_ EXCEPT ![t] = AssignedShard(producer_counter_)]
            /\ producer_counter_' = producer_counter_ + 1
            /\ queue_assigned_' = [queue_assigned_ EXCEPT ![t] = TRUE]
       ELSE UNCHANGED <<my_queue_id_, producer_counter_, queue_assigned_>>
    /\ mp' = [mp EXCEPT ![t] = [MPIdle EXCEPT !.pc = "spsc_entry",
                                              !.val = Val(t, m_next[t])]]
    /\ mp_entry' = [mp_entry EXCEPT ![t] = ProducerSide(queues_[my_queue_id_'[t]])]
    /\ UNCHANGED <<queues_, consumer_round_robin_, nthreads, mc, m_next,
                   m_accepted, m_popped, mc_entry>>
    /\ UNCHANGED bulk_vars
    /\ UNCHANGED outside_mpsc

\* queues_[my_queue_id_].push_with_writer(writer)              spsc.h 76-95
MPushEntry(t) ==
    /\ mp[t].pc = "spsc_entry"
    /\ LET qq == queues_[ShardOf(t)]
       IN  mp' = [mp EXCEPT ![t] = [@ EXCEPT !.pc = PushEntryPc(qq), !.head = qq.head,
                                             !.next_head = nextIndex(qq, qq.head)]]
    /\ UNCHANGED <<queues_, producer_counter_, consumer_round_robin_, my_queue_id_,
                   queue_assigned_, nthreads, mc, m_next, m_accepted, m_popped,
                   mp_entry, mc_entry>>
    /\ UNCHANGED bulk_vars
    /\ UNCHANGED outside_mpsc

MPushRefresh(t) ==
    /\ mp[t].pc = "push_refresh"
    /\ queues_' = [queues_ EXCEPT ![ShardOf(t)] = PushRefreshQ(@)]
    /\ mp' = [mp EXCEPT ![t] =
                IF PushRefreshFull(queues_'[ShardOf(t)], mp[t].next_head)
                THEN [MPIdle EXCEPT !.ret = FALSE, !.calls = 1]
                ELSE [@ EXCEPT !.pc = "push_write"]]
    /\ UNCHANGED <<producer_counter_, consumer_round_robin_, my_queue_id_,
                   queue_assigned_, nthreads, mc, m_next, m_accepted, m_popped,
                   mp_entry, mc_entry>>
    /\ UNCHANGED bulk_vars
    /\ UNCHANGED outside_mpsc

MPushWrite(t) ==
    /\ mp[t].pc = "push_write"
    /\ queues_' = [queues_ EXCEPT ![ShardOf(t)] =
                      PushWriteQ(@, mp[t].head, mp[t].val)]
    /\ mp' = [mp EXCEPT ![t].pc = "push_store"]
    /\ UNCHANGED <<producer_counter_, consumer_round_robin_, my_queue_id_,
                   queue_assigned_, nthreads, mc, m_next, m_accepted, m_popped,
                   mp_entry, mc_entry>>
    /\ UNCHANGED bulk_vars
    /\ UNCHANGED outside_mpsc

MPushStore(t) ==
    /\ mp[t].pc = "push_store"
    /\ queues_' = [queues_ EXCEPT ![ShardOf(t)] = PushStoreQ(@, mp[t].next_head)]
    /\ mp' = [mp EXCEPT ![t] = [MPIdle EXCEPT !.ret = TRUE, !.calls = 1]]
    /\ m_accepted' = [m_accepted EXCEPT ![t] = Append(@, mp[t].val)]
    /\ m_next' = [m_next EXCEPT ![t] = @ + 1]
    /\ UNCHANGED <<producer_counter_, consumer_round_robin_, my_queue_id_,
                   queue_assigned_, nthreads, mc, m_popped, mp_entry, mc_entry>>
    /\ UNCHANGED bulk_vars
    /\ UNCHANGED outside_mpsc

\* --- consumer: pop(value)                                     MPSC.h 56-73
MPop ==
    /\ mc.pc = "idle" /\ mb.pc = "idle"
    /\ mc' = [MCIdle EXCEPT !.pc = "shard_entry", !.start_idx = consumer_round_robin_,
                            !.i = 0, !.value = mc.value]
    /\ mc_entry' = MCSnap
    /\ UNCHANGED <<queues_, producer_counter_, consumer_round_robin_, my_queue_id_,
                   queue_assigned_, nthreads, mp, m_next, m_accepted, m_popped,
                   mp_entry>>
    /\ nonempty_at_entry' = EntryNonempty
    /\ UNCHANGED <<mb, prefill, waited>>
    /\ UNCHANGED outside_mpsc

\* loop head: queue_idx = (start_idx + i) % MaxProducers; queues_[queue_idx].pop
MPopShardEntry ==
    /\ mc.pc = "shard_entry"
    /\ LET queue_idx == (mc.start_idx + mc.i) % MaxProducers
           qq == queues_[queue_idx]
       IN  mc' = [mc EXCEPT !.queue_idx = queue_idx, !.tail = qq.tail,
                            !.pc = PopEntryPc(qq)]
    /\ UNCHANGED <<queues_, producer_counter_, consumer_round_robin_, my_queue_id_,
                   queue_assigned_, nthreads, mp, m_next, m_accepted, m_popped,
                   mp_entry, mc_entry>>
    /\ UNCHANGED bulk_vars
    /\ UNCHANGED outside_mpsc

\* the shard's pop returned false: next shard, or return false after the sweep
MPopNextShard(l, was_nonempty) ==
    IF l.i + 1 < MaxProducers
    THEN [l EXCEPT !.pc = "shard_entry", !.i = l.i + 1,
                   !.skipped_nonempty = l.skipped_nonempty \/ was_nonempty]
    ELSE [MCIdle EXCEPT !.ret = FALSE, !.calls = 1, !.value = l.value, !.i = l.i + 1,
                        !.start_idx = l.start_idx,
                        !.skipped_nonempty = l.skipped_nonempty \/ was_nonempty]

MPopRefresh ==
    /\ mc.pc = "pop_refresh"
    /\ queues_' = [queues_ EXCEPT ![mc.queue_idx] = PopRefreshQ(@)]
    /\ mc' = IF PopRefreshEmpty(queues_'[mc.queue_idx], mc.tail)
             THEN MPopNextShard(mc, ~empty(queues_[mc.queue_idx]))
             ELSE [mc EXCEPT !.pc = "pop_read"]
    /\ UNCHANGED <<producer_counter_, consumer_round_robin_, my_queue_id_,
                   queue_assigned_, nthreads, mp, m_next, m_accepted, m_popped,
                   mp_entry, mc_entry>>
    /\ UNCHANGED bulk_vars
    /\ UNCHANGED outside_mpsc

MPopRead ==
    /\ mc.pc = "pop_read"
    /\ mc' = [mc EXCEPT !.value = PopReadCell(queues_[mc.queue_idx], mc.tail),
                        !.pc = "pop_store"]
    /\ UNCHANGED <<queues_, producer_counter_, consumer_round_robin_, my_queue_id_,
                   queue_assigned_, nthreads, mp, m_next, m_accepted, m_popped,
                   mp_entry, mc_entry>>
    /\ UNCHANGED bulk_vars
    /\ UNCHANGED outside_mpsc

\* the shard's pop returned true: store consumer_round_robin_, return true
\* (bug variant: the start shard is not advanced)
NextRoundRobin_Stay(queue_idx) == queue_idx

NextRoundRobin(queue_idx) == (queue_idx + 1) % MaxProducers

MPopStore ==
    /\ mc.pc = "pop_store"
    /\ queues_' = [queues_ EXCEPT ![mc.queue_idx] = PopStoreQ(@, mc.tail)]
    /\ consumer_round_robin_' = NextRoundRobin(mc.queue_idx)
    /\ mc' = [MCIdle EXCEPT !.ret = TRUE, !.calls = 1, !.value = mc.value,
                            !.start_idx = mc.start_idx, !.i = mc.i,
                            !.queue_idx = mc.queue_idx,
                            !.skipped_nonempty = mc.skipped_nonempty]
    /\ m_popped' = Append(m_popped, mc.value)
    /\ UNCHANGED <<producer_counter_, my_queue_id_, queue_assigned_, nthreads, mp,
                   m_next, m_accepted, mp_entry, mc_entry>>
    /\ waited' = WaitedAfter({mc.queue_idx})
    /\ UNCHANGED <<mb, prefill, nonempty_at_entry>>
    /\ UNCHANGED outside_mpsc

\* --- consumer: pop_bulk(reader, max_items)                   MPSC.h 75-101
\* size_t(32): the most one round takes from its shard
ShardBatchLimit == 32

\* const size_t batch_size = std::min(max_items - total_popped, size_t(32))
\* (bug variant: the round may take all that is still asked for)
BatchSize_Uncapped(max_items, total_popped) == max_items - total_popped

BatchSize(max_items, total_popped) ==
    Min(max_items - total_popped, ShardBatchLimit)

\* consumer_round_robin_.store((queue_idx + 1) % MaxProducers) after a round
\* (bug variant: the next call starts again at the shard this round drained)
BulkRoundRobin_Stay(queue_idx) == queue_idx

BulkRoundRobin(queue_idx) == (queue_idx + 1) % MaxProducers

\* queue.pop_with_reader(reader), entry: load own tail, test the cached head
MPopBulkShardEntry(l, qq) == [l EXCEPT !.tail = qq.tail, !.pc = PopEntryPc(qq)]

\* largest max_items a caller passes
MaxBulk == 34

BulkCounts == {1, MaxBulk}

MPopBulk ==
    /\ mc.pc = "idle" /\ mb.pc = "idle"
    /\ \E max_items \in BulkCounts :
          mb' = [MBIdle EXCEPT !.pc = "round", !.max_items = max_items,
                               !.start_idx = consumer_round_robin_,
                               !.value = mb.value]
    /\ nonempty_at_entry' = EntryNonempty
    /\ UNCHANGED <<prefill, waited>>
    /\ UNCHANGED mpsc_vars
    /\ UNCHANGED outside_mpsc

\* for (round = 0; round < MaxProducers && total_popped < max_items; ++round):
\* the loop test, and the first pop_with_reader of the round; return total_popped
MPopBulkRound ==
    /\ mb.pc = "round"
    /\ IF mb.round < MaxProducers /\ mb.total_popped < mb.max_items
       THEN LET queue_idx == (mb.start_idx + mb.round) % MaxProducers
                l == [mb EXCEPT !.queue_idx = queue_idx, !.i = 0,
                                !.batch_size = BatchSize(mb.max_items, mb.total_popped),
                                !.visits = Append(@, [shard |-> queue_idx,
                                                      before |-> mb.total_popped,
                                                      n |-> 0])]
            IN  /\ mb' = IF l.i < l.batch_size
                         THEN MPopBulkShardEntry(l, queues_[queue_idx])
                         ELSE [l EXCEPT !.pc = "round_end"]
                /\ UNCHANGED waited
       ELSE /\ mb' = [mb EXCEPT !.pc = "idle", !.ret = mb.total_popped, !.calls = 1]
            /\ waited' = IF mb.total_popped > 0
                         THEN WaitedAfter({mb.visits[j].shard : j \in
                                  {k \in 1..Len(mb.visits) : mb.visits[k].n > 0}})
                         ELSE waited
    /\ UNCHANGED <<prefill, nonempty_at_entry>>
    /\ UNCHANGED mpsc_vars
    /\ UNCHANGED outside_mpsc

\* pop_with_reader: cached_head = head.load(); still empty -> false -> break
MPopBulkRefresh ==
    /\ mb.pc = "pop_refresh"
    /\ queues_' = [queues_ EXCEPT ![mb.queue_idx] = PopRefreshQ(@)]
    /\ mb' = IF PopRefreshEmpty(queues_'[mb.queue_idx], mb.tail)
             THEN [mb EXCEPT !.pc = "round_end"]
             ELSE [mb EXCEPT !.pc = "pop_read"]
    /\ UNCHANGED <<producer_counter_, consumer_round_robin_, my_queue_id_,
                   queue_assigned_, nthreads, mp, mc, m_next, m_accepted, m_popped,
                   mp_entry, mc_entry>>
    /\ UNCHANGED <<prefill, waited, nonempty_at_entry>>
    /\ UNCHANGED outside_mpsc

\* pop_with_reader: reader(&buffer_[tail])
MPopBulkRead ==
    /\ mb.pc = "pop_read"
    /\ mb' = [mb EXCEPT !.value = PopReadCell(queues_[mb.queue_idx], mb.tail),
                        !.pc = "pop_store"]
    /\ UNCHANGED <<prefill, waited, nonempty_at_entry>>
    /\ UNCHANGED mpsc_vars
    /\ UNCHANGED outside_mpsc

\* pop_with_reader: tail.store, return true; ++total_popped; ++i; the inner
\* loop's test and, if it goes on, the next pop_with_reader's entry
MPopBulkStore ==
    /\ mb.pc = "pop_store"
    /\ queues_' = [queues_ EXCEPT ![mb.queue_idx] = PopStoreQ(@, mb.tail)]
    /\ LET l == [mb EXCEPT !.total_popped = @ + 1, !.i = @ + 1,
                           !.visits[Len(mb.visits)].n = @ + 1]
       IN  mb' = IF l.i < l.batch_size
                 THEN MPopBulkShardEntry(l, queues_'[mb.queue_idx])
                 ELSE [l EXCEPT !.pc = "round_end"]
    /\ m_popped' = Append(m_popped, mb.value)
    /\ UNCHANGED <<producer_counter_, consumer_round_robin_, my_queue_id_,
                   queue_assigned_, nthreads, mp, mc, m_next, m_accepted,
                   mp_entry, mc_entry>>
    /\ UNCHANGED <<prefill, waited, nonempty_at_entry>>
    /\ UNCHANGED outside_mpsc

\* if (total_popped > 0) consumer_round_robin_.store(...); ++round
MPopBulkRoundEnd ==
    /\ mb.pc = "round_end"
    /\ consumer_round_robin_' = IF mb.total_popped > 0
                                THEN BulkRoundRobin(mb.queue_idx)
                                ELSE consumer_round_robin_
    /\ mb' = [mb EXCEPT !.pc = "round", !.round = @ + 1]
    /\ UNCHANGED <<queues_, producer_counter_, my_queue_id_, queue_assigned_,
                   nthreads, mp, mc, m_next, m_accepted, m_popped, mp_entry,
                   mc_entry>>
    /\ UNCHANGED <<prefill, waited, nonempty_at_entry>>
    /\ UNCHANGED outside_mpsc

\* --- shards that are already in use when the consumer starts calling pop_bulk
\* MPSCQueue<int, 64>
BulkCapacity == 64

\* elements a shard's thread pushed and the consumer popped before / elements
\* the thread pushed after that, not yet popped
BulkStart == 40

MaxFill == 33

\* the j-th value (j = 1, 2, ...) shard s holds in the first state
PrefillVal(s, j) == Val(MaxThreads + 1, 0) + s * BulkCapacity + j

\* the shard after its thread pushed `a` values, the consumer popped them in
\* one sweep of pops and the thread pushed the values `vals`
UsedSPSC(cap, a, vals) ==
    [cap |-> cap,
     head |-> (a + Len(vals)) % cap,
     cached_tail |-> IF a + Len(vals) >= cap THEN a ELSE 0,
     tail |-> a,
     cached_head |-> a,
     buffer |-> [i \in 0..(cap - 1) |->
                    IF (i - a) % cap < Len(vals) THEN vals[((i - a) % cap) + 1] ELSE 0]]

\* shard 0 holds more than one round takes, the other shards one value or
\* none (and then the next push finds head + 1 at its cached tail)
BulkShapes(s) ==
    IF s = 0 THEN {<<BulkStart, MaxFill>>} ELSE {<<BulkCapacity - 1, 0>>, <<1, 1>>}

\* small shards, empty or nearly full
StarveShapes(s) == {<<1, 0>>, <<1, ShardCapacity - 2>>}

\* shards of `cap` cells in use, in one of the shapes shapes[s]; w: the
\* bookkeeping of the consumer's calls is on (0) or off (-1)
MPSCUsedInit(cap, shapes, w) ==
    /\ \E shape \in {f \in [Shards -> (0..cap) \X (0..cap)] :
                         \A s \in Shards : f[s] \in shapes[s]} :
          /\ prefill = [s \in Shards |->
                           [j \in 1..shape[s][2] |-> PrefillVal(s, j)]]
          /\ queues_ = [s \in Shards |-> UsedSPSC(cap, shape[s][1], prefill[s])]
    /\ nthreads = MaxProducers
    /\ producer_counter_ = nthreads
    /\ consumer_round_robin_ \in Shards
    /\ my_queue_id_ = [t \in Threads |-> IF t <= nthreads THEN AssignedShard(t - 1) ELSE 0]
    /\ queue_assigned_ = [t \in Threads |-> t <= nthreads]
    /\ mp = [t \in Threads |-> MPIdle]
    /\ mc = MCIdle
    \* each thread has its last item left to push
    /\ m_next = [t \in Threads |-> MaxItems]
    /\ m_accepted = [t \in Threads |-> <<>>]
    /\ m_popped = <<>>
    /\ mp_entry = [t \in Threads |-> ProducerSide(queues_[my_queue_id_[t]])]
    /\ mc_entry = [rr |-> consumer_round_robin_,
                   shards |-> [s \in Shards |-> ConsumerSide(queues_[s])],
                   popped |-> <<>>, value |-> 0, after_stop |-> FALSE]
    /\ mb = MBIdle
    /\ waited = [s \in Shards |-> w]
    /\ nonempty_at_entry = {}

\* -------------------------------------------------------- slot-seq MPSC
\* MPSCQueue<T, Capacity> of mpsc/seq_mpsc.h; Capacity is a power of two
SeqCapacity == 2

\* threads pushing with a sequence of their own choice
SeqProducers == 2

\* the sequences pushed are 0 .. MaxSeqs-1
MaxSeqs == 4

Seqs == 0..(MaxSeqs - 1)

\* pushes without a seq draw the sequences 0 .. MaxTickets-1
MaxTickets == 3

\* a & b on naturals
RECURSIVE BitAnd(_, _)
BitAnd(a, b) ==
    IF a = 0 \/ b = 0 THEN 0
    ELSE 2 * BitAnd(a \div 2, b \div 2) + (IF a % 2 = 1 /\ b % 2 = 1 THEN 1 ELSE 0)

\* Capacity of the queue object: the slots of its buffer_
SlotCount == Cardinality(DOMAIN slots)

\* static constexpr size_t mask = Capacity - 1
mask == SlotCount - 1

\* (bug variant: the published mark is the sequence itself)
write_mask_Same(seq) == seq

write_mask(seq) == seq + 1

\* (bug variant: any slot that is not being read is taken as writable)
can_write_to_slot_Loose(slot_idx, seq) == slots[slot_idx].seq <= seq

can_write_to_slot(slot_idx, seq) == slots[slot_idx].seq = seq

\* (bug variant: a slot still waiting for its payload is taken as ready)
can_pop_slot_Unwritten(slot_idx, seq) == slots[slot_idx].seq >= seq

can_pop_slot(slot_idx, seq) == slots[slot_idx].seq = write_mask(seq)

\* the payload a thread pushes with sequence seq / with its i-th own push
Payload(seq) == MaxSeqs + 1 + seq

SPIdle == [pc |-> "idle", seq |-> 0, slot_idx |-> 0, val |-> 0, spun |-> FALSE,
           ret |-> FALSE, calls |-> 0]

SCIdle == [pc |-> "idle", expect_seq |-> 0, slot_idx |-> 0, value |-> 0,
           spun |-> FALSE, ret |-> FALSE, calls |-> 0]

SCSnap ==
    [expect_next_ |-> expect_next_, size_ |-> size_, slots |-> slots,
     value |-> sc.value, ready |-> can_pop_slot(BitAnd(expect_next_, mask), expect_next_)]

\* MPSCQueue(): buffer_[i].seq = i
SeqQueueOf(cap, seqs) ==
    /\ slots = [i \in 0..(cap - 1) |-> [seq |-> i, data |-> 0]]
    /\ size_ = 0
    /\ global_seq = 0
    /\ expect_next_ = 0
    /\ sp = [t \in Threads |-> SPIdle]
    /\ sc = SCIdle
    /\ sq_given = [k \in seqs |-> 0]
    /\ sq_popped = <<>>
    /\ sc_entry = [expect_next_ |-> 0, size_ |-> 0, slots |-> slots, value |-> 0,
                   ready |-> FALSE]

SeqQueueInit == SeqQueueOf(SeqCapacity, Seqs)

\* the queue is not used
SeqOff ==
    /\ SeqQueueInit
    /\ plan = [t \in Threads |-> <<>>]
    /\ sq_in = [gap |-> -1, plan |-> plan]

\* --- pushing thread t: push(value, seq)                 seq_mpsc.h 48-60
SeqPush(t) ==
    /\ sp[t].pc = "idle" /\ plan[t] /= <<>>
    /\ LET seq == Head(plan[t])
       IN  sp' = [sp EXCEPT ![t] = [SPIdle EXCEPT !.pc = "wait", !.seq = seq,
                                                  !.slot_idx = BitAnd(seq, mask),
                                                  !.val = Payload(seq)]]
    /\ plan' = [plan EXCEPT ![t] = Tail(@)]
    /\ sq_given' = [sq_given EXCEPT ![Head(plan[t])] = Payload(Head(plan[t]))]
    /\ UNCHANGED <<slots, size_, global_seq, expect_next_, sc, sq_in, sq_popped,
                   sc_entry>>
    /\ UNCHANGED outside_seq

\* while (!can_write_to_slot(slot_idx, seq)) yield: one load of the slot's seq
SeqPushWait(t) ==
    /\ sp[t].pc = "wait"
    /\ sp' = [sp EXCEPT ![t] = IF can_write_to_slot(sp[t].slot_idx, sp[t].seq)
                               THEN [@ EXCEPT !.pc = "write"]
                               ELSE [@ EXCEPT !.spun = TRUE]]
    /\ UNCHANGED <<slots, size_, global_seq, expect_next_, sc, plan, sq_in,
                   sq_given, sq_popped, sc_entry>>
    /\ UNCHANGED outside_seq

\* writer(&buffer_[slot_idx].data)
SeqPushWrite(t) ==
    /\ sp[t].pc = "write"
    /\ slots' = [slots EXCEPT ![sp[t].slot_idx].data = sp[t].val]
    /\ sp' = [sp EXCEPT ![t].pc = "count"]
    /\ UNCHANGED <<size_, global_seq, expect_next_, sc, plan, sq_in, sq_given,
                   sq_popped, sc_entry>>
    /\ UNCHANGED outside_seq

\* size_.fetch_add(1)
SeqPushCount(t) ==
    /\ sp[t].pc = "count"
    /\ size_' = size_ + 1
    /\ sp' = [sp EXCEPT ![t].pc = "publish"]
    /\ UNCHANGED <<slots, global_seq, expect_next_, sc, plan, sq_in, sq_given,
                   sq_popped, sc_entry>>
    /\ UNCHANGED outside_seq

\* buffer_[slot_idx].seq.store(write_mask(seq)); return true
SeqPushPublish(t) ==
    /\ sp[t].pc = "publish"
    /\ slots' = [slots EXCEPT ![sp[t].slot_idx].seq = write_mask(sp[t].seq)]
    /\ sp' = [sp EXCEPT ![t] = [@ EXCEPT !.pc = "idle", !.ret = TRUE, !.calls = 1]]
    /\ UNCHANGED <<size_, global_seq, expect_next_, sc, plan, sq_in, sq_given,
                   sq_popped, sc_entry>>
    /\ UNCHANGED outside_seq

\* --- pushing thread t: push(value)                      seq_mpsc.h 62-65
\* the payload of the thread's next push without a seq
OwnPayload(t) ==
    t * (MaxSeqs + 1) +
    Cardinality({k \in Seqs : sq_given[k] \div (MaxSeqs + 1) = t}) + 1

\* global_seq after fetch_add(1)
\* (bug variant: the counter is read but the increment is lost)
TicketAfter_Lost(g) == g

TicketAfter(g) == g + 1

\* global_seq.fetch_add(1) is the seq; the tickets drawn are 0 .. MaxTickets-1
SeqPushImplicit(t) ==
    /\ sp[t].pc = "idle" /\ global_seq < MaxTickets /\ global_seq < MaxSeqs
    /\ global_seq' = TicketAfter(global_seq)
    /\ sp' = [sp EXCEPT ![t] = [SPIdle EXCEPT !.pc = "wait", !.seq = global_seq,
                                              !.slot_idx = BitAnd(global_seq, mask),
                                              !.val = OwnPayload(t)]]
    /\ sq_given' = [sq_given EXCEPT ![global_seq] = OwnPayload(t)]
    /\ UNCHANGED <<slots, size_, expect_next_, sc, plan, sq_in, sq_popped,
                   sc_entry>>
    /\ UNCHANGED outside_seq

\* --- consumer: pop(value)                                seq_mpsc.h 67-88
SeqPop ==
    /\ sc.pc = "idle"
    /\ sc' = [SCIdle EXCEPT !.pc = "wait", !.expect_seq = expect_next_,
                            !.slot_idx = BitAnd(expect_next_, mask),
                            !.value = sc.value]
    /\ sc_entry' = SCSnap
    /\ UNCHANGED <<slots, size_, global_seq, expect_next_, sp, plan, sq_in,
                   sq_given, sq_popped>>
    /\ UNCHANGED outside_seq

\* the consumer after a load that found no payload for expect_seq: yield, load
\* again (the "if (empty()) return false" at the head of pop is commented out)
\* (bug variant: pop gives up and returns false)
PopNotReady_ReturnFalse(rec) ==
    [rec EXCEPT !.pc = "idle", !.ret = FALSE, !.calls = 1, !.spun = TRUE]

PopNotReady(rec) == [rec EXCEPT !.spun = TRUE]

\* while (!can_pop_slot(slot_idx, expect_seq)) yield: one load of the slot's seq
SeqPopWait ==
    /\ sc.pc = "wait"
    /\ sc' = IF can_pop_slot(sc.slot_idx, sc.expect_seq)
             THEN [sc EXCEPT !.pc = "read"]
             ELSE PopNotReady(sc)
    /\ UNCHANGED <<slots, size_, global_seq, expect_next_, sp, plan, sq_in,
                   sq_given, sq_popped, sc_entry>>
    /\ UNCHANGED outside_seq

\* reader(&buffer_[slot_idx].data)
SeqPopRead ==
    /\ sc.pc = "read"
    /\ sc' = [sc EXCEPT !.value = slots[sc.slot_idx].data, !.pc = "count"]
    /\ UNCHANGED <<slots, size_, global_seq, expect_next_, sp, plan, sq_in,
                   sq_given, sq_popped, sc_entry>>
    /\ UNCHANGED outside_seq

\* size_.fetch_sub(1)
SeqPopCount ==
    /\ sc.pc = "count"
    /\ size_' = size_ - 1
    /\ sc' = [sc EXCEPT !.pc = "release"]
    /\ UNCHANGED <<slots, global_seq, expect_next_, sp, plan, sq_in, sq_given,
                   sq_popped, sc_entry>>
    /\ UNCHANGED outside_seq

\* the seq a slot gets when its payload has been read
\* (bug variant: the slot is handed back for the sequence just read)
ReleasedSeq_SameRound(expect_seq) == expect_seq

ReleasedSeq(expect_seq) == expect_seq + SlotCount

\* buffer_[slot_idx].seq.store(expect_seq + Capacity); expect_next_++; return true
SeqPopRelease ==
    /\ sc.pc = "release"
    /\ slots' = [slots EXCEPT ![sc.slot_idx].seq = ReleasedSeq(sc.expect_seq)]
    /\ expect_next_' = expect_next_ + 1
    /\ sc' = [sc EXCEPT !.pc = "idle", !.ret = TRUE, !.calls = 1]
    /\ sq_popped' = Append(sq_popped, sc.value)
    /\ UNCHANGED <<size_, global_seq, sp, plan, sq_in, sq_given, sc_entry>>
    /\ UNCHANGED outside_seq

\* --- the sequences the threads push, and in which order
RECURSIVE Orders(_)
\* all orderings of all subsets of S
Orders(S) ==
    {<<>>} \cup UNION {{<<x>> \o o : o \in Orders(S \ {x})} : x \in S}

Range(f) == {f[i] : i \in DOMAIN f}

\* every sequence of S is pushed once, by one of the first SeqProducers threads
Plans(S) ==
    LET P == 1..SeqProducers
        split == {pl \in [P -> Orders(S)] :
                    /\ \A x \in S : \E t \in P : x \in Range(pl[t])
                    /\ \A t, u \in P : t /= u => Range(pl[t]) \cap Range(pl[u]) = {}}
    IN  {[t \in Threads |-> IF t \in P THEN pl[t] ELSE <<>>] : pl \in split}

\* ------------------------------- ring MPSC with claimed positions
\* mpsc/ringbuffer_based_mpsc.h: a push claims position tail_ by compare-exchange
\* when the slot's sequence says it is free for that position.

\* slots of the ring (the Capacity argument of MPSCQueue), a power of two
RingCapacity == 2

\* the threads that push
RingThreads == 1..MaxProducers

\* every thread pushes until MaxRingItems of its pushes have returned true
MaxRingItems == 2

\* ... and a thread that uses the ring alone until MaxSingleItems have
MaxSingleItems == 5

\* the i-th value thread t pushes
RVal(t, i) == t * (MaxRingItems + MaxSingleItems + 1) + i

\* Capacity of the queue object: the slots of sequences_
RingSlots == Cardinality(DOMAIN sequences_)

RingIndex(pos) == BitAnd(pos, RingSlots - 1)

\* pos - current_head >= Capacity on size_t: a head beyond pos wraps around
\* (bug variant: one slot is kept free)
RingFull_OneLess(pos, current_head) ==
    IF current_head > pos THEN TRUE ELSE pos - current_head >= RingSlots - 1

RingFull(pos, current_head) ==
    IF current_head > pos THEN TRUE ELSE pos - current_head >= RingSlots

\* tail_.compare_exchange_weak(pos, pos + 1) finds tail_ as expected
\* (bug variant: tail_ is stored without the comparison)
ClaimWins_Blind(pos, tail) == TRUE

ClaimWins(pos, tail) == pos = tail

ring_size == tail_ - head_

ring_empty == ring_size = 0

ring_capacity_WithoutSpare == RingSlots

ring_capacity == RingSlots + 1

\* a thread outside push: the locals of a call end with it
RPIdle == [pc |-> "idle", pos |-> 0, index |-> 0, val |-> 0, ret |-> FALSE,
           calls |-> 0]

RPReturn(r) == [RPIdle EXCEPT !.ret = r, !.calls = 1]

\* the consumer outside pop; value is the caller's variable
RCIdle == [pc |-> "idle", pos |-> 0, index |-> 0, value |-> 0, ret |-> FALSE,
           calls |-> 0]

RCReturn(r, v) == [RCIdle EXCEPT !.ret = r, !.calls = 1, !.value = v]

\* MPSCQueue(): sequences_[i] = i, tail_ = head_ = 0; cached: what the
\* thread_local tls_cached_head_ of every pushing thread holds
RingQueueWith(cap, limit, cached) ==
    /\ buffer_ = [i \in 0..(cap - 1) |-> 0]
    /\ tail_ = 0 /\ head_ = 0
    /\ sequences_ = [i \in 0..(cap - 1) |-> i]
    /\ tls_cached_head_ = cached
    /\ rp = [t \in RingThreads |-> RPIdle]
    /\ rc = RCIdle
    /\ r_limit = limit
    /\ r_sent = [t \in RingThreads |-> 0]
    /\ r_claim = <<>>
    /\ r_returned = {}
    /\ r_popped = <<>>
    /\ r_last = -1

\* ... with threads that have not pushed to any queue of the type before:
\* tls_cached_head_ = 0 is their thread_local's initial value
RingQueueOf(cap, limit) == RingQueueWith(cap, limit, [t \in RingThreads |-> 0])

RingInit(limit) == RingQueueOf(RingCapacity, limit)

\* the ring is not used
RingOff == RingInit(0)

\* --- pushing thread t: push(value)        ringbuffer_based_mpsc.h 33-61
\* pos = tail_.load()
RingPush(t) ==
    /\ rp[t].pc = "idle" /\ r_sent[t] < r_limit
    /\ rp' = [rp EXCEPT ![t] = [RPIdle EXCEPT !.pc = "loadseq", !.pos = tail_,
                                              !.val = RVal(t, r_sent[t] + 1)]]
    /\ r_last' = t
    /\ UNCHANGED <<buffer_, tail_, head_, sequences_, tls_cached_head_, rc,
                   r_limit, r_sent, r_claim, r_returned, r_popped>>
    /\ UNCHANGED outside_ring

\* index = pos & (Capacity - 1); seq = sequences_[index].load(); the branch;
\* with seq < pos, current_head = tls_cached_head_ and the first comparison
RingPushLoadSeq(t) ==
    /\ rp[t].pc = "loadseq"
    /\ LET index == RingIndex(rp[t].pos)
           seq == sequences_[index]
           to == IF seq = rp[t].pos THEN "cas"
                 ELSE IF seq < rp[t].pos /\ RingFull(rp[t].pos, tls_cached_head_[t])
                 THEN "refresh"
                 ELSE "reload"
       IN  rp' = [rp EXCEPT ![t] = [@ EXCEPT !.index = index, !.pc = to]]
    /\ UNCHANGED <<buffer_, tail_, head_, sequences_, tls_cached_head_, rc,
                   r_limit, r_sent, r_claim, r_returned, r_popped, r_last>>
    /\ UNCHANGED outside_ring

\* tail_.compare_exchange_weak(pos, pos + 1): the claim; a failure leaves tail_
\* in pos, and the weak form may fail though tail_ is pos
RingPushClaim(t) ==
    /\ rp[t].pc = "cas"
    /\ \/ /\ ClaimWins(rp[t].pos, tail_)
          /\ tail_' = rp[t].pos + 1
          /\ rp' = [rp EXCEPT ![t].pc = "write"]
          /\ r_claim' = IF rp[t].pos < Len(r_claim)
                        THEN [r_claim EXCEPT ![rp[t].pos + 1] = rp[t].val]
                        ELSE Append(r_claim, rp[t].val)
       \/ /\ rp' = [rp EXCEPT ![t] = [@ EXCEPT !.pos = tail_, !.pc = "loadseq"]]
          /\ UNCHANGED <<tail_, r_claim>>
    /\ UNCHANGED <<buffer_, head_, sequences_, tls_cached_head_, rc, r_limit,
                   r_sent, r_returned, r_popped, r_last>>
    /\ UNCHANGED outside_ring

\* writer(&buffer_[index].data)
RingPushWrite(t) ==
    /\ rp[t].pc = "write"
    /\ buffer_' = [buffer_ EXCEPT ![rp[t].index] = rp[t].val]
    /\ rp' = [rp EXCEPT ![t].pc = "publish"]
    /\ UNCHANGED <<tail_, head_, sequences_, tls_cached_head_, rc, r_limit,
                   r_sent, r_claim, r_returned, r_popped, r_last>>
    /\ UNCHANGED outside_ring

\* sequences_[index].store(pos + 1); return true
RingPushPublish(t) ==
    /\ rp[t].pc = "publish"
    /\ sequences_' = [sequences_ EXCEPT ![rp[t].index] = rp[t].pos + 1]
    /\ rp' = [rp EXCEPT ![t] = RPReturn(TRUE)]
    /\ r_sent' = [r_sent EXCEPT ![t] = @ + 1]
    /\ r_returned' = r_returned \cup {rp[t].val}
    /\ UNCHANGED <<buffer_, tail_, head_, tls_cached_head_, rc, r_limit,
                   r_claim, r_popped, r_last>>
    /\ UNCHANGED outside_ring

\* current_head = head_.load(); tls_cached_head_ = current_head;
\* if (pos - current_head >= Capacity) return false
RingPushRefresh(t) ==
    /\ rp[t].pc = "refresh"
    /\ tls_cached_head_' = [tls_cached_head_ EXCEPT ![t] = head_]
    /\ rp' = [rp EXCEPT ![t] = IF RingFull(rp[t].pos, head_)
                               THEN RPReturn(FALSE)
                               ELSE [@ EXCEPT !.pc = "reload"]]
    /\ UNCHANGED <<buffer_, tail_, head_, sequences_, rc, r_limit, r_sent,
                   r_claim, r_returned, r_popped, r_last>>
    /\ UNCHANGED outside_ring

\* pos = tail_.load(), and round the loop
RingPushReload(t) ==
    /\ rp[t].pc = "reload"
    /\ rp' = [rp EXCEPT ![t] = [@ EXCEPT !.pos = tail_, !.pc = "loadseq"]]
    /\ UNCHANGED <<buffer_, tail_, head_, sequences_, tls_cached_head_, rc,
                   r_limit, r_sent, r_claim, r_returned, r_popped, r_last>>
    /\ UNCHANGED outside_ring

RingPushStep(t) ==
    \/ RingPush(t) \/ RingPushLoadSeq(t) \/ RingPushClaim(t) \/ RingPushWrite(t)
    \/ RingPushPublish(t) \/ RingPushRefresh(t) \/ RingPushReload(t)

\* --- consumer: pop(value)                 ringbuffer_based_mpsc.h 79-98
\* pos = head_.load(); index = pos & (Capacity - 1)
RingPop ==
    /\ rc.pc = "idle"
    /\ rc' = [RCIdle EXCEPT !.pc = "loadseq", !.pos = head_,
                            !.index = RingIndex(head_), !.value = rc.value]
    /\ r_last' = 0
    /\ UNCHANGED <<buffer_, tail_, head_, sequences_, tls_cached_head_, rp,
                   r_limit, r_sent, r_claim, r_returned, r_popped>>
    /\ UNCHANGED outside_ring

\* seq == pos + 1: the slot of position pos has been published
\* (bug variant: a slot that is free for pos or claimed for it passes too)
RingReady_Unpublished(seq, pos) == seq = pos + 1 \/ seq = pos

RingReady(seq, pos) == seq = pos + 1

\* seq = sequences_[index].load(); if (seq == pos + 1) ... return false
RingPopLoadSeq ==
    /\ rc.pc = "loadseq"
    /\ rc' = IF RingReady(sequences_[rc.index], rc.pos)
             THEN [rc EXCEPT !.pc = "read"]
             ELSE RCReturn(FALSE, rc.value)
    /\ UNCHANGED <<buffer_, tail_, head_, sequences_, tls_cached_head_, rp,
                   r_limit, r_sent, r_claim, r_returned, r_popped, r_last>>
    /\ UNCHANGED outside_ring

\* reader(&buffer_[index].data)
RingPopRead ==
    /\ rc.pc = "read"
    /\ rc' = [rc EXCEPT !.value = buffer_[rc.index], !.pc = "release"]
    /\ UNCHANGED <<buffer_, tail_, head_, sequences_, tls_cached_head_, rp,
                   r_limit, r_sent, r_claim, r_returned, r_popped, r_last>>
    /\ UNCHANGED outside_ring

\* the sequence a slot gets when its data has been read
\* (bug variant: the slot is handed back one short of the next round)
ReleasedFor_Short(pos) == pos + RingSlots - 1

ReleasedFor(pos) == pos + RingSlots

\* sequences_[index].store(pos + Capacity)
RingPopRelease ==
    /\ rc.pc = "release"
    /\ sequences_' = [sequences_ EXCEPT ![rc.index] = ReleasedFor(rc.pos)]
    /\ rc' = [rc EXCEPT !.pc = "advance"]
    /\ UNCHANGED <<buffer_, tail_, head_, tls_cached_head_, rp, r_limit,
                   r_sent, r_claim, r_returned, r_popped, r_last>>
    /\ UNCHANGED outside_ring

\* head_ after the pop of position pos
\* (bug variant: the consumer steps over a position)
NextHead_Skip(pos) == pos + 2

NextHead(pos) == pos + 1

\* head_.store(pos + 1); return true
RingPopAdvance ==
    /\ rc.pc = "advance"
    /\ head_' = NextHead(rc.pos)
    /\ rc' = RCReturn(TRUE, rc.value)
    /\ r_popped' = Append(r_popped, rc.value)
    /\ UNCHANGED <<buffer_, tail_, sequences_, tls_cached_head_, rp, r_limit,
                   r_sent, r_claim, r_returned, r_last>>
    /\ UNCHANGED outside_ring

RingPopStep ==
    RingPop \/ RingPopLoadSeq \/ RingPopRead \/ RingPopRelease \/ RingPopAdvance

\* ----------------------------------------------- Reorderer (mpsc_seq.cpp)
\* The slots of fast_buffer_ (std::array<Slot, 1024>).
FastSlots == 2

\* Cells of output_queue_ (SPSCQueue<SeqData, 4096>), a power of two.
OutputCapacity == 2

\* The source queue delivers the sequences 0 .. MaxStream - 1.
MaxStream == 4

\* A message is its seq: the payload takes no part in any decision.

\* One call of push / pop of an SPSCQueue object, taken as one step: the
\* steps of push and of pop above, run from entry to return.
SPSCPushCall(qq, v) ==
    LET next_head == nextIndex(qq, qq.head)
        refresh == PushEntryPc(qq) = "push_refresh"
        q1 == IF refresh THEN PushRefreshQ(qq) ELSE qq
    IN  IF refresh /\ PushRefreshFull(q1, next_head)
        THEN [q |-> q1, ok |-> FALSE]
        ELSE [q |-> PushStoreQ(PushWriteQ(q1, qq.head, v), next_head), ok |-> TRUE]

SPSCPopCall(qq) ==
    LET refresh == PopEntryPc(qq) = "pop_refresh"
        q1 == IF refresh THEN PopRefreshQ(qq) ELSE qq
    IN  IF refresh /\ PopRefreshEmpty(q1, qq.tail)
        THEN [q |-> q1, ok |-> FALSE, value |-> -1]
        ELSE [q |-> PopStoreQ(q1, qq.tail), ok |-> TRUE,
              value |-> PopReadCell(q1, qq.tail)]

FastSize == Cardinality(DOMAIN fast_buffer_)

SlotIdx(s) == s % FastSize

IsDirect(s, next) == s = next

\* (bug variant: no message is taken as late)
IsLate_Never(s, next) == FALSE

IsLate(s, next) == s < next

\* new_distance < old_distance for the uint64_t differences a - next and
\* b - next: a difference below zero wraps to a value above every difference
\* that does not wrap, and two wrapped differences compare as a and b do.
DistanceLess(a, b, next) ==
    LET wa == a < next
        wb == b < next
    IN  IF wa = wb THEN a < b ELSE wb

\* (bug variant: on a collision the farther message is not kept)
Stage_DropFarther(fast, over, next, s) ==
    LET i == s % Cardinality(DOMAIN fast)
    IN  IF ~fast[i].valid
        THEN [fast |-> [fast EXCEPT ![i] = [valid |-> TRUE, seq |-> s]], over |-> over]
        ELSE IF fast[i].seq /= s /\ DistanceLess(s, fast[i].seq, next)
             THEN [fast |-> [fast EXCEPT ![i].seq = s], over |-> over]
             ELSE [fast |-> fast, over |-> over]

\* (bug variant: on a collision the message that came first keeps the slot)
Stage_KeepOld(fast, over, next, s) ==
    LET i == s % Cardinality(DOMAIN fast)
    IN  IF ~fast[i].valid
        THEN [fast |-> [fast EXCEPT ![i] = [valid |-> TRUE, seq |-> s]], over |-> over]
        ELSE IF fast[i].seq /= s
             THEN [fast |-> fast, over |-> over \cup {s}]
             ELSE [fast |-> fast, over |-> over]

\* process_data past the two tests: the message goes to its slot of the fast
\* buffer or, on a collision, one of the two goes to the overflow buffer
Stage(fast, over, next, s) ==
    LET i == s % Cardinality(DOMAIN fast)
    IN  IF ~fast[i].valid
        THEN [fast |-> [fast EXCEPT ![i] = [valid |-> TRUE, seq |-> s]], over |-> over]
        ELSE IF fast[i].seq /= s
             THEN IF DistanceLess(s, fast[i].seq, next)
                  THEN [fast |-> [fast EXCEPT ![i].seq = s],
                        over |-> over \cup {fast[i].seq}]
                  ELSE [fast |-> fast, over |-> over \cup {s}]
             ELSE [fast |-> fast, over |-> over]

\* std::max(max_disordered_count_.load(), data.seq - next_expected_seq_)
MaxDisordered(cur, s, next) == IF s - next > cur THEN s - next ELSE cur

ReadyInFast(fast, next) ==
    LET slot == fast[next % Cardinality(DOMAIN fast)]
    IN  slot.valid /\ slot.seq = next

\* (bug variant: the overflow buffer is never looked into)
ReadyInOverflow_Never(over, next) == FALSE

ReadyInOverflow(over, next) == next \in over

\* (bug variants: the spin of output_data ends never / at once)
GiveUp_Never(stop) == FALSE

GiveUp_AtOnce(stop) == TRUE

\* output_data: after a push that failed the spin ends when stop_ is set
GiveUp(stop) == stop

\* worker: pc; data, the message in hand; from, where it was taken from;
\* calls, the calls of try_output_ready_data still to be made after the one
\* running; kind, what process_data did with the message; spun, whether a
\* push into the output queue has failed since the message was popped
RWIdle == [pc |-> "loop", data |-> -1, from |-> "none", calls |-> 0, kind |-> "none",
           spun |-> FALSE]

ReoOf(arrivals, slots_n, cap, enabled) ==
    /\ source_queue_ = arrivals
    /\ fast_buffer_ = [i \in 0..(slots_n - 1) |-> [valid |-> FALSE, seq |-> 0]]
    /\ overflow_buffer_ = {}
    /\ next_expected_seq_ = 0
    /\ output_queue_ = NewSPSC(cap)
    /\ stop_ = FALSE
    /\ processed_count_ = 0
    /\ direct_hit_count_ = 0
    /\ l1_cached_count_ = 0
    /\ l2_cached_count_ = 0
    /\ max_disordered_count_ = 0
    /\ rw = [RWIdle EXCEPT !.pc = IF enabled THEN "loop" ELSE "done"]
    /\ dtor = "none"
    /\ reo_in = Len(arrivals)
    /\ out_pushed = <<>>
    /\ got = <<>>

ReoOff == ReoOf(<<>>, FastSlots, OutputCapacity, FALSE)

\* every order of 0 .. MaxStream - 1, and every such order with one message
\* more that repeats one of them
Arrivals ==
    {s \in UNION {[1..n -> 0..(MaxStream - 1)] : n \in MaxStream..(MaxStream + 1)} :
        \A k \in 0..(MaxStream - 1) : \E i \in DOMAIN s : s[i] = k}

\* --- reorder_work: while (!stop_.load())                mpsc_seq.cpp 92-103
ReoLoop ==
    /\ rw.pc = "loop"
    /\ rw' = [RWIdle EXCEPT !.pc = IF stop_ THEN "done" ELSE "pop_source"]
    /\ UNCHANGED <<source_queue_, fast_buffer_, overflow_buffer_, next_expected_seq_,
                   output_queue_, stop_, processed_count_, direct_hit_count_,
                   l1_cached_count_, l2_cached_count_, max_disordered_count_,
                   dtor, reo_in, out_pushed, got>>
    /\ UNCHANGED outside_reo

\* if (source_queue_.pop(data)) { processed_count_++; ... } else yield
ReoPopSource ==
    /\ rw.pc = "pop_source"
    /\ IF source_queue_ /= <<>>
       THEN /\ source_queue_' = Tail(source_queue_)
            /\ processed_count_' = processed_count_ + 1
            /\ rw' = [rw EXCEPT !.pc = "process", !.data = Head(source_queue_)]
       ELSE /\ rw' = [rw EXCEPT !.pc = "loop"]
            /\ UNCHANGED <<source_queue_, processed_count_>>
    /\ UNCHANGED <<fast_buffer_, overflow_buffer_, next_expected_seq_,
                   output_queue_, stop_, direct_hit_count_,
                   l1_cached_count_, l2_cached_count_, max_disordered_count_,
                   dtor, reo_in, out_pushed, got>>
    /\ UNCHANGED outside_reo

\* --- process_data up to its call of output_data         mpsc_seq.cpp 106-143
ReoProcess ==
    /\ rw.pc = "process"
    /\ IF IsDirect(rw.data, next_expected_seq_)
       THEN /\ direct_hit_count_' = direct_hit_count_ + 1
            /\ rw' = [rw EXCEPT !.pc = "output", !.from = "direct", !.kind = "direct"]
            /\ UNCHANGED <<fast_buffer_, overflow_buffer_, max_disordered_count_>>
       ELSE IF IsLate(rw.data, next_expected_seq_)
       THEN /\ rw' = [rw EXCEPT !.pc = "drain", !.kind = "late"]
            /\ UNCHANGED <<fast_buffer_, overflow_buffer_, max_disordered_count_,
                           direct_hit_count_>>
       ELSE LET st == Stage(fast_buffer_, overflow_buffer_, next_expected_seq_, rw.data)
            IN  /\ fast_buffer_' = st.fast
                /\ overflow_buffer_' = st.over
                /\ max_disordered_count_' =
                       MaxDisordered(max_disordered_count_, rw.data, next_expected_seq_)
                /\ rw' = [rw EXCEPT !.pc = "drain", !.kind = "staged"]
                /\ UNCHANGED direct_hit_count_
    /\ UNCHANGED <<source_queue_, next_expected_seq_, output_queue_, stop_,
                   processed_count_, l1_cached_count_, l2_cached_count_,
                   dtor, reo_in, out_pushed, got>>
    /\ UNCHANGED outside_reo

\* --- output_data: output_queue_.push(data)              mpsc_seq.cpp 145-150
ReoOutputPush ==
    /\ rw.pc = "output"
    /\ LET r == SPSCPushCall(output_queue_, rw.data)
       IN  /\ output_queue_' = r.q
           /\ out_pushed' = IF r.ok THEN Append(out_pushed, rw.data) ELSE out_pushed
           /\ rw' = [rw EXCEPT !.pc = IF r.ok THEN "emitted" ELSE "output_stop"]
    /\ UNCHANGED <<source_queue_, fast_buffer_, overflow_buffer_, next_expected_seq_,
                   stop_, processed_count_, direct_hit_count_,
                   l1_cached_count_, l2_cached_count_, max_disordered_count_,
                   dtor, reo_in, got>>
    /\ UNCHANGED outside_reo

\* ... && !stop_.load(): yield and push again, or return
ReoOutputStop ==
    /\ rw.pc = "output_stop"
    /\ rw' = [rw EXCEPT !.pc = IF GiveUp(stop_) THEN "emitted" ELSE "output",
                        !.spun = TRUE]
    /\ UNCHANGED <<source_queue_, fast_buffer_, overflow_buffer_, next_expected_seq_,
                   output_queue_, stop_, processed_count_, direct_hit_count_,
                   l1_cached_count_, l2_cached_count_, max_disordered_count_,
                   dtor, reo_in, out_pushed, got>>
    /\ UNCHANGED outside_reo

\* --- what follows the return of output_data    mpsc_seq.cpp 110-113, 161-173
ReoAdvance ==
    /\ rw.pc = "emitted"
    /\ next_expected_seq_' = next_expected_seq_ + 1
    /\ \/ /\ rw.from = "direct"
          /\ rw' = [rw EXCEPT !.pc = "drain", !.calls = 1]
          /\ UNCHANGED <<fast_buffer_, overflow_buffer_, l1_cached_count_, l2_cached_count_>>
       \/ /\ rw.from = "l1"
          /\ fast_buffer_' = [fast_buffer_ EXCEPT ![SlotIdx(next_expected_seq_)].valid = FALSE]
          /\ l1_cached_count_' = l1_cached_count_ + 1
          /\ rw' = [rw EXCEPT !.pc = "drain"]
          /\ UNCHANGED <<overflow_buffer_, l2_cached_count_>>
       \/ /\ rw.from = "l2"
          /\ overflow_buffer_' = overflow_buffer_ \ {rw.data}
          /\ l2_cached_count_' = l2_cached_count_ + 1
          /\ rw' = [rw EXCEPT !.pc = "drain"]
          /\ UNCHANGED <<fast_buffer_, l1_cached_count_>>
    /\ UNCHANGED <<source_queue_, output_queue_, stop_, processed_count_,
                   direct_hit_count_, max_disordered_count_,
                   dtor, reo_in, out_pushed, got>>
    /\ UNCHANGED outside_reo

\* --- try_output_ready_data: one test of its loop        mpsc_seq.cpp 152-181
ReoDrain ==
    /\ rw.pc = "drain"
    /\ rw' = IF ReadyInFast(fast_buffer_, next_expected_seq_)
             THEN [rw EXCEPT !.pc = "output", !.from = "l1",
                             !.data = fast_buffer_[SlotIdx(next_expected_seq_)].seq]
             ELSE IF ReadyInOverflow(overflow_buffer_, next_expected_seq_)
             THEN [rw EXCEPT !.pc = "output", !.from = "l2", !.data = next_expected_seq_]
             ELSE IF rw.calls > 0
             THEN [rw EXCEPT !.calls = rw.calls - 1]
             ELSE [rw EXCEPT !.pc = "loop"]
    /\ UNCHANGED <<source_queue_, fast_buffer_, overflow_buffer_, next_expected_seq_,
                   output_queue_, stop_, processed_count_, direct_hit_count_,
                   l1_cached_count_, l2_cached_count_, max_disordered_count_,
                   dtor, reo_in, out_pushed, got>>
    /\ UNCHANGED outside_reo

ReoWorkerStep ==
    \/ ReoLoop \/ ReoPopSource \/ ReoProcess \/ ReoOutputPush \/ ReoOutputStop
    \/ ReoAdvance \/ ReoDrain

\* --- get_next(data): output_queue_.pop(data)                mpsc_seq.cpp 197
ReoGetNext ==
    /\ dtor /= "joined"
    /\ LET r == SPSCPopCall(output_queue_)
       IN  /\ output_queue_' = r.q
           /\ got' = IF r.ok THEN Append(got, r.value) ELSE got
    /\ UNCHANGED <<source_queue_, fast_buffer_, overflow_buffer_, next_expected_seq_,
                   stop_, processed_count_, direct_hit_count_,
                   l1_cached_count_, l2_cached_count_, max_disordered_count_,
                   rw, dtor, reo_in, out_pushed>>
    /\ UNCHANGED outside_reo

\* --- ~Reorderer: stop_.store(true); join                mpsc_seq.cpp 191-196
ReoDestroy ==
    /\ dtor = "none"
    /\ stop_' = TRUE
    /\ dtor' = "joining"
    /\ UNCHANGED <<source_queue_, fast_buffer_, overflow_buffer_, next_expected_seq_,
                   output_queue_, processed_count_, direct_hit_count_,
                   l1_cached_count_, l2_cached_count_, max_disordered_count_,
                   rw, reo_in, out_pushed, got>>
    /\ UNCHANGED outside_reo

ReoJoin ==
    /\ dtor = "joining"
    /\ rw.pc = "done"
    /\ dtor' = "joined"
    /\ UNCHANGED <<source_queue_, fast_buffer_, overflow_buffer_, next_expected_seq_,
                   output_queue_, stop_, processed_count_, direct_hit_count_,
                   l1_cached_count_, l2_cached_count_, max_disordered_count_,
                   rw, reo_in, out_pushed, got>>
    /\ UNCHANGED outside_reo

\* -------------------------------------- SeqMpsc pipeline (mpsc_seq.cpp)
\* consume threads and their SPSC queues (4 in the source, scaled)
num_consumers_ == 2

Workers == 0..(num_consumers_ - 1)

\* ring size of the queues of the pipeline (1024 in the source, scaled)
PipeCapacity == 2

\* messages the produce thread makes before it only waits for stop_
MaxPipeSeq == 3

\* SPSCQueue with no room for a push
IsFull(qq) == (qq.head - qq.tail) % qq.cap = capacity(qq)

PTIdle == [pc |-> "loop", global_seq |-> 0, data |-> -1, spun |-> FALSE]

CTIdle == [pc |-> "loop", data |-> -1, shard |-> -1, spun |-> FALSE]

\* SeqMpsc(): empty queues, stop_ = false, the threads at their loop heads
PipeOf(workers, cap, running) ==
    /\ pipeline_stop_ = FALSE
    /\ spsc_queues_ = [i \in workers |-> NewSPSC(cap)]
    /\ queue_ = [shards |-> [s \in Shards |-> NewSPSC(cap)],
                 producer_counter_ |-> 0, consumer_round_robin_ |-> 0]
    /\ pt = [PTIdle EXCEPT !.pc = IF running THEN "loop" ELSE "done"]
    /\ ct = [i \in workers |-> [CTIdle EXCEPT !.pc = IF running THEN "loop" ELSE "done"]]
    /\ pipe_dtor = "none"
    /\ reorder_blocked = FALSE

\* no pipeline
PipeOff == PipeOf(Workers, PipeCapacity, FALSE)

\* --- produce_thread: while (!stop_.load())               mpsc_seq.cpp 42-51
\* data.seq = global_seq++
PipeProduceLoop ==
    /\ pt.pc = "loop"
    /\ pipeline_stop_ \/ pt.global_seq < MaxPipeSeq
    /\ pt' = IF pipeline_stop_
             THEN [pt EXCEPT !.pc = "done"]
             ELSE [pt EXCEPT !.pc = "push", !.data = pt.global_seq,
                             !.global_seq = pt.global_seq + 1, !.spun = FALSE]
    /\ UNCHANGED <<pipeline_stop_, spsc_queues_, queue_, ct, pipe_dtor, reorder_blocked>>
    /\ UNCHANGED outside_pipe

\* the queue a message goes to: push_to_spsc_ is called with global_seq
\* after the increment
SpscOf(seq) == seq % num_consumers_

\* push_to_spsc_: while (!spsc_queues_[seq % num_consumers_].push(data)) yield
PipePushToSpsc ==
    /\ pt.pc = "push"
    /\ LET k == SpscOf(pt.global_seq)
           r == SPSCPushCall(spsc_queues_[k], pt.data)
       IN  /\ spsc_queues_' = [spsc_queues_ EXCEPT ![k] = r.q]
           /\ pt' = IF r.ok THEN [pt EXCEPT !.pc = "loop", !.spun = FALSE]
                    ELSE [pt EXCEPT !.spun = TRUE]
    /\ UNCHANGED <<pipeline_stop_, queue_, ct, pipe_dtor, reorder_blocked>>
    /\ UNCHANGED outside_pipe

\* --- consume_thread(i): while (!stop_.load())              mpsc_seq.cpp 53-67
PipeConsumeLoop(i) ==
    /\ ct[i].pc = "loop"
    /\ ct' = [ct EXCEPT ![i].pc = IF pipeline_stop_ THEN "done" ELSE "pop"]
    /\ UNCHANGED <<pipeline_stop_, spsc_queues_, queue_, pt, pipe_dtor, reorder_blocked>>
    /\ UNCHANGED outside_pipe

\* if (spsc_queues_[consumer_id].pop(data)) ... else yield
PipeConsumePop(i) ==
    /\ ct[i].pc = "pop"
    /\ LET r == SPSCPopCall(spsc_queues_[i])
       IN  /\ spsc_queues_' = [spsc_queues_ EXCEPT ![i] = r.q]
           /\ ct' = IF r.ok THEN [ct EXCEPT ![i].pc = "fwd", ![i].data = r.value,
                                            ![i].spun = FALSE]
                    ELSE [ct EXCEPT ![i].pc = "loop"]
    /\ UNCHANGED <<pipeline_stop_, queue_, pt, pipe_dtor, reorder_blocked>>
    /\ UNCHANGED outside_pipe

\* while (!queue_.push(data)) yield: the thread's first push draws its shard
PipeForward(i) ==
    /\ ct[i].pc = "fwd"
    /\ LET first == ct[i].shard < 0
           s == IF first THEN AssignedShard(queue_.producer_counter_) ELSE ct[i].shard
           r == SPSCPushCall(queue_.shards[s], ct[i].data)
       IN  /\ queue_' = [queue_ EXCEPT
                            !.shards[s] = r.q,
                            !.producer_counter_ = IF first THEN @ + 1 ELSE @]
           /\ ct' = IF r.ok THEN [ct EXCEPT ![i].pc = "loop", ![i].shard = s,
                                            ![i].spun = FALSE]
                    ELSE [ct EXCEPT ![i].shard = s, ![i].spun = TRUE]
    /\ UNCHANGED <<pipeline_stop_, spsc_queues_, pt, pipe_dtor, reorder_blocked>>
    /\ UNCHANGED outside_pipe

\* queue_.pop, entry to return: the shards from consumer_round_robin_ on
RECURSIVE QueuePopFrom(_, _, _)
QueuePopFrom(mq, start_idx, i) ==
    IF i = MaxProducers THEN [q |-> mq, ok |-> FALSE]
    ELSE LET queue_idx == (start_idx + i) % MaxProducers
             r == SPSCPopCall(mq.shards[queue_idx])
             mq1 == [mq EXCEPT !.shards[queue_idx] = r.q]
         IN  IF r.ok
             THEN [q |-> [mq1 EXCEPT !.consumer_round_robin_ =
                                         (queue_idx + 1) % MaxProducers],
                   ok |-> TRUE]
             ELSE QueuePopFrom(mq1, start_idx, i + 1)

\* --- the Reorderer's worker: source_queue_.pop(data)       mpsc_seq.cpp 92-103
PipeReorderPop ==
    /\ pt.pc /= "done" \/ \E i \in Workers : ct[i].pc /= "done"
    /\ ~reorder_blocked
    /\ queue_' = QueuePopFrom(queue_, queue_.consumer_round_robin_, 0).q
    /\ UNCHANGED <<pipeline_stop_, spsc_queues_, pt, ct, pipe_dtor, reorder_blocked>>
    /\ UNCHANGED outside_pipe

\* the worker is in output_data with output_queue_ full; nobody calls
\* get_next any more and the Reorderer's own stop_ is set only after
\* ~SeqMpsc has returned                                   mpsc_seq.cpp 145-150
PipeReorderBlock ==
    /\ pt.pc /= "done" \/ \E i \in Workers : ct[i].pc /= "done"
    /\ ~reorder_blocked
    /\ reorder_blocked' = TRUE
    /\ UNCHANGED <<pipeline_stop_, spsc_queues_, queue_, pt, ct, pipe_dtor>>
    /\ UNCHANGED outside_pipe

\* --- ~SeqMpsc: stop_.store(true); join every thread     mpsc_seq.cpp 239-246
PipeDestroy ==
    /\ pipe_dtor = "none" /\ pt.pc /= "done"
    /\ pipeline_stop_' = TRUE
    /\ pipe_dtor' = "joining"
    /\ UNCHANGED <<spsc_queues_, queue_, pt, ct, reorder_blocked>>
    /\ UNCHANGED outside_pipe

PipeJoin ==
    /\ pipe_dtor = "joining"
    /\ pt.pc = "done" /\ \A i \in Workers : ct[i].pc = "done"
    /\ pipe_dtor' = "joined"
    /\ UNCHANGED <<pipeline_stop_, spsc_queues_, queue_, pt, ct, reorder_blocked>>
    /\ UNCHANGED outside_pipe

\* ------------------------------------------------------------ specifications
vars == <<q, p, c, next_val, accepted, popped, p_entry, c_entry, run, obs,
          queues_, producer_counter_, consumer_round_robin_, my_queue_id_,
          queue_assigned_, nthreads, mp, mc, m_next, m_accepted, m_popped,
          mp_entry, mc_entry, mb, prefill, waited, nonempty_at_entry,
          slots, size_, global_seq, expect_next_, sp, sc, plan, sq_in,
          sq_given, sq_popped, sc_entry, buffer_, tail_, head_, sequences_,
          tls_cached_head_, rp, rc, r_limit, r_sent, r_claim, r_returned,
          r_popped, r_last, source_queue_, fast_buffer_, overflow_buffer_,
          next_expected_seq_, output_queue_, stop_, processed_count_,
          direct_hit_count_, l1_cached_count_, l2_cached_count_,
          max_disordered_count_, rw, dtor, reo_in, out_pushed, got,
          pipeline_stop_, spsc_queues_, queue_, pt, ct, pipe_dtor,
          reorder_blocked>>

Init ==
    /\ SPSCInit /\ MPSCInit /\ BulkOff /\ SeqOff /\ RingOff /\ nthreads = MaxProducers
    /\ ReoOff /\ PipeOff

ProducerStep ==
    \/ Push \/ PushRefresh \/ PushWrite \/ PushStore
    \/ PushBulk \/ PushBulkRefresh \/ PushBulkWrite \/ PushBulkStore

ConsumerStep ==
    \/ Pop \/ PopRefresh \/ PopRead \/ PopStore
    \/ PopBulk \/ PopBulkRefresh \/ PopBulkRead \/ PopBulkStore

\* one producer thread and one consumer thread on one SPSCQueue
Next == ProducerStep \/ ConsumerStep

Spec == Init /\ [][Next]_vars

\* a producer calling push, a consumer calling pop and a third thread calling
\* size(), whose two loads the other two threads' steps may separate
NextSize ==
    \/ Push \/ PushRefresh \/ PushWrite \/ PushStore
    \/ Pop \/ PopRefresh \/ PopRead \/ PopStore
    \/ SizeLoadHead \/ SizeLoadTail

SpecSize == Init /\ [][NextSize]_vars

\* the sharded queue: 1..MaxProducers pushing threads and the consumer
InitMPSC ==
    /\ SPSCInit /\ MPSCInit /\ BulkOff /\ SeqOff /\ RingOff /\ ReoOff /\ PipeOff
    /\ nthreads \in 1..Min(MaxThreads, MaxProducers)

MConsumerStep ==
    \/ MPop \/ MPopShardEntry \/ MPopRefresh \/ MPopRead \/ MPopStore

NextMPSC ==
    \/ \E t \in 1..nthreads : MPush(t)
    \/ \E t \in 1..nthreads : MPushEntry(t)
    \/ \E t \in 1..nthreads : MPushRefresh(t)
    \/ \E t \in 1..nthreads : MPushWrite(t)
    \/ \E t \in 1..nthreads : MPushStore(t)
    \/ MConsumerStep

SpecMPSC == InitMPSC /\ [][NextMPSC]_vars

\* cells of a shard of the crowded queue: the smallest ring, one usable cell
CrowdCapacity == 2

\* the sharded queue with one pushing thread more than it has shards, each
\* thread pushing one item (its last)
InitMPSCCrowd ==
    /\ SPSCInit /\ BulkOff /\ SeqOff /\ RingOff /\ ReoOff /\ PipeOff
    /\ MPSCInitWith([t \in Threads |-> 0], [t \in Threads |-> FALSE],
                    MaxItems, CrowdCapacity)
    /\ nthreads \in (MaxProducers + 1)..MaxThreads

SpecMPSCCrowd == InitMPSCCrowd /\ [][NextMPSC]_vars

\* a new sharded queue whose threads have pushed to other queues of the same
\* type before: a thread that did has queue_assigned_ set and the shard
\* number it drew from that other queue's producer_counter_; each thread
\* pushes two items (its last two)
InitMPSCStale ==
    /\ SPSCInit /\ BulkOff /\ SeqOff /\ RingOff /\ ReoOff /\ PipeOff
    /\ nthreads = MaxProducers
    /\ \E assigned \in [Threads -> BOOLEAN] :
       \E ids \in [Threads -> Shards] :
          /\ \A t \in Threads : (~assigned[t] \/ t > nthreads) => ids[t] = 0
          /\ \A t \in Threads : t > nthreads => ~assigned[t]
          /\ MPSCInitWith(ids, assigned, MaxItems - 1, ShardCapacity)

SpecMPSCStale == InitMPSCStale /\ [][NextMPSC]_vars

\* the sharded queue in use: its threads push, the consumer calls pop_bulk
InitBulk ==
    /\ SPSCInit /\ SeqOff /\ RingOff /\ ReoOff /\ PipeOff
    /\ MPSCUsedInit(BulkCapacity, [s \in Shards |-> BulkShapes(s)], -1)

MBulkStep ==
    \/ MPopBulk \/ MPopBulkRound \/ MPopBulkRefresh \/ MPopBulkRead
    \/ MPopBulkStore \/ MPopBulkRoundEnd

NextBulk ==
    \/ \E t \in 1..nthreads : MPush(t)
    \/ \E t \in 1..nthreads : MPushEntry(t)
    \/ \E t \in 1..nthreads : MPushRefresh(t)
    \/ \E t \in 1..nthreads : MPushWrite(t)
    \/ \E t \in 1..nthreads : MPushStore(t)
    \/ MBulkStep

SpecBulk == InitBulk /\ [][NextBulk]_vars

\* small shards in use: their threads push, the consumer calls pop and
\* pop_bulk in any order; the calls' bookkeeping is on
InitStarve ==
    /\ SPSCInit /\ SeqOff /\ RingOff /\ ReoOff /\ PipeOff
    /\ MPSCUsedInit(ShardCapacity, [s \in Shards |-> StarveShapes(s)], 0)

NextStarve ==
    \/ \E t \in 1..nthreads : MPush(t)
    \/ \E t \in 1..nthreads : MPushEntry(t)
    \/ \E t \in 1..nthreads : MPushRefresh(t)
    \/ \E t \in 1..nthreads : MPushWrite(t)
    \/ \E t \in 1..nthreads : MPushStore(t)
    \/ MConsumerStep
    \/ MBulkStep

SpecStarve == InitStarve /\ [][NextStarve]_vars

\* the slot-seq queue, pushes with a seq: every sequence but sq_in is pushed
\* once, by any thread at any place of that thread's order
InitSeq ==
    /\ SPSCInit /\ MPSCInit /\ BulkOff /\ RingOff /\ nthreads = MaxProducers
    /\ ReoOff /\ PipeOff
    /\ SeqQueueInit
    /\ \E g \in {-1} \cup Seqs :
          /\ plan \in Plans(Seqs \ {g})
          /\ sq_in = [gap |-> g, plan |-> plan]

SeqConsumerStep ==
    \/ SeqPop \/ SeqPopWait \/ SeqPopRead \/ SeqPopCount \/ SeqPopRelease

NextSeq ==
    \/ \E t \in Threads : SeqPush(t)
    \/ \E t \in Threads : SeqPushWait(t)
    \/ \E t \in Threads : SeqPushWrite(t)
    \/ \E t \in Threads : SeqPushCount(t)
    \/ \E t \in Threads : SeqPushPublish(t)
    \/ SeqConsumerStep

SpecSeq == InitSeq /\ [][NextSeq]_vars

\* a thread inside a push goes on, and the consumer goes on calling pop and
\* goes on inside it: they are OS threads; a wait loop that finds its slot
\* unchanged changes nothing and is no step
SeqPusherStep(t) ==
    SeqPushWait(t) \/ SeqPushWrite(t) \/ SeqPushCount(t) \/ SeqPushPublish(t)

\* ... and a thread with sequences left to push calls push
SpecSeqFair ==
    /\ SpecSeq
    /\ \A t \in Threads : WF_vars(SeqPush(t) \/ SeqPusherStep(t))
    /\ WF_vars(SeqConsumerStep)

\* the slot-seq queue, pushes without a seq, more threads than slots
InitSeqImplicit ==
    /\ SPSCInit /\ MPSCInit /\ BulkOff /\ RingOff /\ nthreads = MaxProducers
    /\ ReoOff /\ PipeOff
    /\ SeqOff

\* one thread more than the ring has slots
ImplicitThreads == 1..(SeqCapacity + 1)

NextSeqImplicit ==
    \/ \E t \in ImplicitThreads : SeqPushImplicit(t)
    \/ \E t \in ImplicitThreads : SeqPushWait(t)
    \/ \E t \in ImplicitThreads : SeqPushWrite(t)
    \/ \E t \in ImplicitThreads : SeqPushCount(t)
    \/ \E t \in ImplicitThreads : SeqPushPublish(t)
    \/ SeqConsumerStep

SpecSeqImplicit == InitSeqImplicit /\ [][NextSeqImplicit]_vars

\* a thread may stop calling push, but goes on inside a push
SpecSeqImplicitFair ==
    /\ SpecSeqImplicit
    /\ \A t \in ImplicitThreads : WF_vars(SeqPusherStep(t))
    /\ WF_vars(SeqConsumerStep)

\* the ring with claimed positions: threads pushing, one consumer popping
InitRing ==
    /\ SPSCInit /\ MPSCInit /\ BulkOff /\ SeqOff /\ ReoOff /\ PipeOff /\ nthreads = MaxProducers
    /\ RingInit(MaxRingItems)

NextRing ==
    \/ \E t \in RingThreads : RingPushStep(t)
    \/ RingPopStep

SpecRing == InitRing /\ [][NextRing]_vars

\* The head of another queue of the same type, which a thread that pushed to
\* it has left in its tls_cached_head_: 0 .. MaxOtherHead.
MaxOtherHead == 2

\* the ring used by threads that have pushed to another MPSCQueue of the
\* same template type before: tls_cached_head_ is one static thread_local,
\* and MPSCQueue() resets it for the constructing thread only
InitRingStale ==
    /\ SPSCInit /\ MPSCInit /\ BulkOff /\ SeqOff /\ ReoOff /\ PipeOff /\ nthreads = MaxProducers
    /\ \E cached \in [RingThreads -> 0..MaxOtherHead] :
           RingQueueWith(RingCapacity, MaxRingItems, cached)

SpecRingStale == InitRingStale /\ [][NextRing]_vars

\* the ring used by one thread: it pushes and pops, one call after the other
InitRingSingle ==
    /\ SPSCInit /\ MPSCInit /\ BulkOff /\ SeqOff /\ ReoOff /\ PipeOff /\ nthreads = MaxProducers
    /\ RingInit(MaxSingleItems)

NextRingSingle ==
    \/ rc.pc = "idle" /\ RingPushStep(1)
    \/ rp[1].pc = "idle" /\ RingPopStep

SpecRingSingle == InitRingSingle /\ [][NextRingSingle]_vars

\* either queue with slot sequences, on 4 slots and with more pushes than
\* slots: the slot-seq queue with its threads pushing the sequences of a plan,
\* or the ring with claimed positions
WideCapacity == 4

WideSeqs == 0..(WideCapacity + 1)

WidePlans ==
    {[t \in Threads |-> IF t = 1 THEN <<0, 2, 4>> ELSE IF t = 2 THEN <<1, 3, 5>> ELSE <<>>],
     [t \in Threads |-> IF t = 1 THEN <<1, 0, 4, 5>> ELSE IF t = 2 THEN <<3, 2>> ELSE <<>>]}

InitWide ==
    /\ SPSCInit /\ MPSCInit /\ BulkOff /\ nthreads = MaxProducers
    /\ ReoOff /\ PipeOff
    /\ \/ /\ RingOff
          /\ SeqQueueOf(WideCapacity, WideSeqs)
          /\ plan \in WidePlans
          /\ sq_in = [gap |-> -1, plan |-> plan]
       \/ /\ SeqOff
          /\ RingQueueOf(WideCapacity, WideCapacity - 1)

NextWide ==
    \/ r_limit = 0 /\ NextSeq
    \/ r_limit > 0 /\ NextRing

SpecWide == InitWide /\ [][NextWide]_vars

\* the Reorderer with its worker, a thread calling get_next and the thread
\* that destroys it, on every arrival order of the source queue
InitReo ==
    /\ SPSCInit /\ MPSCInit /\ BulkOff /\ SeqOff /\ RingOff /\ nthreads = MaxProducers
    /\ \E a \in Arrivals : ReoOf(a, FastSlots, OutputCapacity, TRUE)
    /\ PipeOff

NextReo ==
    \/ ReoLoop \/ ReoPopSource \/ ReoProcess \/ ReoOutputPush \/ ReoOutputStop
    \/ ReoAdvance \/ ReoDrain
    \/ ReoGetNext
    \/ ReoDestroy \/ ReoJoin

SpecReo == InitReo /\ [][NextReo]_vars

\* the worker thread is scheduled again and again and a join returns once
\* the thread it waits for has ended; the thread calling get_next may stop
\* calling it
SpecReoFair == SpecReo /\ WF_vars(ReoWorkerStep) /\ WF_vars(ReoJoin)

\* the Reorderer while nobody destroys it
NextReoRun ==
    \/ ReoLoop \/ ReoPopSource \/ ReoProcess \/ ReoOutputPush \/ ReoOutputStop
    \/ ReoAdvance \/ ReoDrain
    \/ ReoGetNext

\* the worker and the thread calling get_next are scheduled again and again
SpecReoRun ==
    InitReo /\ [][NextReoRun]_vars /\ WF_vars(ReoWorkerStep) /\ WF_vars(ReoGetNext)





\* the pipeline running: SeqMpsc(true)
InitPipe ==
    /\ SPSCInit /\ MPSCInit /\ BulkOff /\ SeqOff /\ RingOff /\ ReoOff
    /\ nthreads = MaxProducers
    /\ PipeOf(Workers, PipeCapacity, TRUE)

NextPipe ==
    \/ PipeProduceLoop \/ PipePushToSpsc
    \/ \E i \in Workers : PipeConsumeLoop(i)
    \/ \E i \in Workers : PipeConsumePop(i)
    \/ \E i \in Workers : PipeForward(i)
    \/ PipeReorderPop \/ PipeReorderBlock
    \/ PipeDestroy \/ PipeJoin

SpecPipe == InitPipe /\ [][NextPipe]_vars

\* ------------------------------------------------------------------- claims
IsPrefix(s, t) == Len(s) <= Len(t) /\ \A i \in 1..Len(s) : s[i] = t[i]

\* accepted but not yet popped, oldest first
Pending == SubSeq(accepted, Len(popped) + 1, Len(accepted))

\* the cells of the published range [tail, head), oldest first
RingContents(qq) ==
    [j \in 1..((qq.head - qq.tail) % qq.cap) |-> qq.buffer[(qq.tail + j - 1) % qq.cap]]

ProducerStopped == p.pc = "idle" /\ next_val > MaxVal

PushReturned(r) == p.pc = "idle" /\ p.op = "push" /\ p.ret = r

PopReturned(r) == c.pc = "idle" /\ c.op = "pop" /\ c.ret = r

\* C1: one producer, one consumer: the values popped so far are a prefix of the
\* values accepted so far, the accepted values are the producer's stream with
\* nothing left out, and a pop called after the producer stopped returns
\* false only when every accepted value has been popped.
C1_StrictFifo ==
    /\ IsPrefix(popped, accepted)
    /\ accepted = [j \in 1..(next_val - 1) |-> j]
    /\ (PopReturned(FALSE) /\ c_entry.after_stop) => popped = accepted

C1_Witness ==
    /\ PopReturned(FALSE) /\ c_entry.after_stop
    /\ Len(popped) = MaxVal /\ Len(popped) > Capacity

\* C2: a push that ends a stretch of pushes which began on an empty ring and
\* saw no pop returns true as one of the first Capacity-1 of the stretch and
\* false as the next one; capacity() is Capacity-1.
C2_FullAfterCapacity ==
    /\ capacity(q) = Capacity - 1
    /\ (p.pc = "idle" /\ p.op = "push" /\ p_entry.clean /\ run >= 0) =>
           IF p.ret THEN run \in 1..(Capacity - 1) ELSE run = Capacity - 1

\* ... the stretch began at a position other than 0 and the ring wrapped
C2_Witness ==
    /\ PushReturned(FALSE) /\ p_entry.clean /\ run = Capacity - 1
    /\ q.head < q.tail

\* C3: a push that returns false has left head, cached_tail, the buffer and
\* the accepted values as it found them, the ring still holds exactly the
\* pending values in order, and no step of the producer changes tail or
\* cached_head.
C3_FailedPushState ==
    PushReturned(FALSE) =>
        /\ q.head = p_entry.head
        /\ q.cached_tail = p_entry.cached_tail
        /\ q.buffer = p_entry.buffer
        /\ accepted = p_entry.accepted
        /\ RingContents(q) = Pending

C3_ProducerFrame ==
    (p' # p) => (q'.tail = q.tail /\ q'.cached_head = q.cached_head)

C3_FailedPushUnchanged == [](C3_FailedPushState) /\ [][C3_ProducerFrame]_vars

C3_Witness ==
    /\ PushReturned(FALSE) /\ p_entry.clean
    /\ Len(Pending) = Capacity - 1 /\ Len(popped) > 0

\* C4: a pop that returns false has left tail, cached_head and the caller's
\* output variable as it found them, and no step of the consumer changes
\* head, cached_tail or a buffer cell.
C4_FailedPopState ==
    PopReturned(FALSE) =>
        /\ q.tail = c_entry.tail
        /\ q.cached_head = c_entry.cached_head
        /\ c.value = c_entry.value
        /\ popped \o RingContents(q) = accepted

C4_ConsumerFrame ==
    (c' # c) => (q'.head = q.head /\ q'.cached_tail = q.cached_tail
                 /\ q'.buffer = q.buffer)

C4_FailedPopUnchanged == [](C4_FailedPopState) /\ [][C4_ConsumerFrame]_vars

\* ... the output variable holds an earlier pop's value, the ring has wrapped
C4_Witness ==
    /\ PopReturned(FALSE) /\ c.value > 0 /\ Len(popped) > Capacity
    /\ q.head = q.tail

\* C5: size() returns a value in 0..capacity(), also when head and tail were
\* read at different moments.
C5_SizeInRange == obs.pc = "done" => obs.ret \in 0..capacity(q)

\* ... the two reads straddle pushes and pops: the head read is behind the tail
C5_Witness == obs.pc = "done" /\ obs.head < obs.tail /\ obs.ret = capacity(q)

\* C6: push_bulk(src, k) that no pop overlapped, on a ring with f free cells:
\* it returns min(k, f) and appends src[0..r-1] in order behind the pending
\* elements; with f = 0 it returns 0 and changes nothing.
C6_PushBulkExact ==
    (p.pc = "idle" /\ p.op = "push_bulk" /\ p_entry.clean) =>
        LET f == Capacity - 1 - p_entry.size
            r == p.cnt
        IN  /\ r = Min(p_entry.k, f)
            /\ accepted = p_entry.accepted \o [j \in 1..r |-> p_entry.src0 + j - 1]
            /\ RingContents(q) = Pending
            /\ q.head = (p_entry.head + r) % Capacity
            /\ r = 0 => (q.head = p_entry.head /\ q.buffer = p_entry.buffer)

\* ... a batch cut short by a full ring whose span straddles the array's end
C6_Witness ==
    /\ p.pc = "idle" /\ p.op = "push_bulk" /\ p_entry.clean
    /\ p.cnt < p_entry.k /\ p.cnt >= 2
    /\ p_entry.head + p.cnt > Capacity
    /\ p_entry.size > 0

\* C7: producer in push_bulk, consumer in pop_bulk: every cell pop_bulk has
\* copied is a published one, in order; it returns at most k; the popped
\* batches concatenated are a prefix of the accepted batches concatenated.
C7_BulkFifo ==
    /\ IsPrefix(popped, accepted)
    /\ c.pc \in {"bulk_read", "bulk_store"} =>
          /\ Len(popped) + c.can_read <= Len(accepted)
          /\ \A j \in 0..(c.i - 1) : c.dst[j] = accepted[Len(popped) + j + 1]
    /\ (c.pc = "idle" /\ c.op = "pop_bulk") => c.cnt <= c_entry.k

\* ... a batch read across the array's end while the producer is writing one
C7_Witness ==
    /\ c.pc = "bulk_read" /\ c.i >= 1 /\ c.tail + c.can_read > Capacity
    /\ p.pc = "bulk_write"


\* ---------------------------------------------------- claims, sharded MPSC
MPushReturned(t, r) == mp[t].pc = "idle" /\ mp[t].calls = 1 /\ mp[t].ret = r

MPopReturned(r) == mc.pc = "idle" /\ mc.calls = 1 /\ mc.ret = r

\* the values of thread t among the popped ones, in the order popped
PoppedOf(t) == SelectSeq(m_popped, LAMBDA v : ProducerOf(v) = t)

\* C8: P <= MaxProducers pushing threads: what the consumer has received of one
\* thread is a prefix of what that thread got accepted (its items 1, 2, ... in
\* order, each once), every received value is some thread's, and a pop called
\* after all threads finished returns false only when all P*MaxItems values
\* have been received.
C8_PerProducerFifo ==
    /\ \A t \in 1..nthreads :
          /\ IsPrefix(PoppedOf(t), m_accepted[t])
          /\ m_accepted[t] = [j \in 1..(m_next[t] - 1) |-> Val(t, j)]
    /\ \A i \in 1..Len(m_popped) : ProducerOf(m_popped[i]) \in 1..nthreads
    /\ (MPopReturned(FALSE) /\ mc_entry.after_stop) =>
          /\ Len(m_popped) = nthreads * MaxItems
          /\ \A t \in 1..nthreads : PoppedOf(t) = m_accepted[t]

\* ... all received, the threads' values interleaved in the consumer's order
C8_Witness ==
    /\ MPopReturned(FALSE) /\ mc_entry.after_stop
    /\ nthreads = MaxProducers
    /\ Len(m_popped) = MaxProducers * MaxItems
    /\ \E i \in 1..(Len(m_popped) - 1) :
          ProducerOf(m_popped[i]) > ProducerOf(m_popped[i + 1])

\* C9: pop inspects the shards in the order rr, rr+1, ... (mod M); the shards
\* it passed over were empty when it looked; it takes one element from the
\* shard s it stops at and sets consumer_round_robin_ to (s+1) mod M; when all
\* M shards were empty it returns false and leaves consumer_round_robin_, the
\* shards and the output variable as they were.  No step of the consumer
\* changes what a producer owns.
C9_PopState ==
    /\ MPopReturned(TRUE) =>
          LET s == mc.queue_idx
          IN  /\ mc.start_idx = mc_entry.rr
              /\ s = (mc_entry.rr + mc.i) % MaxProducers
              /\ mc.i < MaxProducers
              /\ ~mc.skipped_nonempty
              /\ consumer_round_robin_ = (s + 1) % MaxProducers
              /\ m_popped = Append(mc_entry.popped, mc.value)
              /\ queues_[s].tail = (mc_entry.shards[s].tail + 1) % ShardCapacity
              /\ \A j \in Shards \ {s} : queues_[j].tail = mc_entry.shards[j].tail
    /\ MPopReturned(FALSE) =>
          /\ mc.i = MaxProducers
          /\ ~mc.skipped_nonempty
          /\ consumer_round_robin_ = mc_entry.rr
          /\ \A j \in Shards : ConsumerSide(queues_[j]) = mc_entry.shards[j]
          /\ m_popped = mc_entry.popped
          /\ mc.value = mc_entry.value

C9_ConsumerFrame ==
    (mc' # mc) => \A j \in Shards : ProducerSide(queues_'[j]) = ProducerSide(queues_[j])

C9_RoundRobinPop == [](C9_PopState) /\ [][C9_ConsumerFrame]_vars

\* ... the sweep started at the last shard, found it empty and wrapped to 0
C9_Witness ==
    /\ MPopReturned(TRUE)
    /\ mc.start_idx = MaxProducers - 1 /\ mc.i = 1 /\ mc.queue_idx = 0

\* elements in a shard
Fill(qq) == (qq.head - qq.tail) % qq.cap

\* C10: a push that returned false has left its shard's head, cached_tail and
\* buffer as found, and every value sits in the shard of the thread that
\* pushed it.  A push fails only at a moment its own shard is full and
\* publishes only at a moment its own shard has room, so a push on a shard
\* that stays full returns false; no step of a pushing thread changes another
\* shard or what the consumer owns.
C10_PushState ==
    /\ \A t \in 1..nthreads :
          MPushReturned(t, FALSE) =>
              ProducerSide(queues_[my_queue_id_[t]]) = mp_entry[t]
    /\ \A s \in Shards : \A i \in 0..(ShardCapacity - 1) :
          queues_[s].buffer[i] # 0 => my_queue_id_[ProducerOf(queues_[s].buffer[i])] = s

C10_ProducerFrame ==
    \A t \in 1..nthreads :
        (mp'[t] # mp[t]) =>
            LET own == my_queue_id_'[t]
            IN  /\ \A s \in Shards \ {own} : queues_'[s] = queues_[s]
                /\ ConsumerSide(queues_'[own]) = ConsumerSide(queues_[own])
                /\ MPushReturned(t, FALSE)' =>
                      (Fill(queues_[own]) = ShardCapacity - 1 /\ queues_'[own] = queues_[own])
                /\ MPushReturned(t, TRUE)' =>
                      (Fill(queues_[own]) < ShardCapacity - 1
                       /\ Fill(queues_'[own]) = Fill(queues_[own]) + 1)

C10_NoSpillOver == [](C10_PushState) /\ [][C10_ProducerFrame]_vars

\* ... the thread's shard is full, every other shard is empty, the push fails
C10_Witness ==
    \E t \in 1..nthreads :
        /\ nthreads = MaxProducers
        /\ MPushReturned(t, FALSE)
        /\ Fill(queues_[my_queue_id_[t]]) = ShardCapacity - 1
        /\ \A s \in Shards \ {my_queue_id_[t]} : empty(queues_[s])

\* ------------------------------------------- claims, sharded MPSC pop_bulk
\* the pushing thread of shard s
ShardThread(s) == CHOOSE t \in 1..nthreads : my_queue_id_[t] = s

\* every value shard s was given, in the order given
ShardStream(s) == prefill[s] \o m_accepted[ShardThread(s)]

\* the shard a value went through
ValShard(v) ==
    IF ProducerOf(v) > MaxThreads
    THEN (v - Val(MaxThreads + 1, 0) - 1) \div BulkCapacity
    ELSE my_queue_id_[ProducerOf(v)]

PoppedFrom(s) == SelectSeq(m_popped, LAMBDA v : ValShard(v) = s)

RECURSIVE TakenUpTo(_, _)
TakenUpTo(v, j) == IF j = 0 THEN 0 ELSE TakenUpTo(v, j - 1) + v[j].n

MPopBulkReturned == mb.pc = "idle" /\ mb.calls = 1

\* C11: pop_bulk(reader, k) has at every moment taken at most k elements; it
\* starts at shard consumer_round_robin_ and goes through the shards in cyclic
\* order, each at most once; from a shard it takes at most min(remaining, 32)
\* elements; it returns what it took, at most min(k, 32*M); what the consumer
\* has taken from one shard is a prefix of what the shard was given, in order.
C11_PopBulkBounded ==
    LET v == mb.visits
    IN  /\ mb.total_popped <= mb.max_items
        /\ mb.total_popped = TakenUpTo(v, Len(v))
        /\ Len(v) <= MaxProducers
        /\ \A j \in 1..Len(v) :
              /\ v[j].shard = (mb.start_idx + j - 1) % MaxProducers
              /\ v[j].before = TakenUpTo(v, j - 1)
              /\ v[j].n <= Min(mb.max_items - v[j].before, ShardBatchLimit)
        /\ (mb.pc /= "idle" /\ mb.total_popped = 0) =>
              mb.start_idx = consumer_round_robin_
        /\ MPopBulkReturned =>
              /\ mb.ret = mb.total_popped
              /\ mb.ret <= Min(mb.max_items, ShardBatchLimit * MaxProducers)
        /\ \A s \in Shards : IsPrefix(PoppedFrom(s), ShardStream(s))

\* ... a call that left shard 0 after 32 elements, though it held more and
\* more were asked for, and went on to take the rest from the next shard
C11_Witness ==
    /\ MPopBulkReturned /\ mb.max_items = MaxBulk /\ Len(mb.visits) = 2
    /\ mb.visits[1].shard = 0 /\ mb.visits[1].n = ShardBatchLimit
    /\ ~empty(queues_[0])
    /\ mb.visits[2].n >= 1 /\ mb.ret > ShardBatchLimit

\* C12: a shard that was non-empty when a consumer call (pop or pop_bulk)
\* began is passed over by fewer than M successful calls in a row: the M-th
\* at the latest takes an element from it, whatever the other shards receive.
C12_NoShardStarved == \A s \in Shards : waited[s] <= MaxProducers - 1

\* ... a shard was passed over M-1 times while another shard, refilled by its
\* thread, was served by pop and by pop_bulk
C12_Witness ==
    /\ mc.pc = "idle" /\ mb.pc = "idle" /\ mc.calls = 1 /\ mb.calls = 1
    /\ \E s \in Shards : /\ waited[s] = MaxProducers - 1
                         /\ ~empty(queues_[s])
                         /\ \E t \in 1..nthreads : /\ my_queue_id_[t] /= s
                                                   /\ Len(m_accepted[t]) >= 1
                                                   /\ m_accepted[t][1] \in
                                                        {m_popped[i] : i \in 1..Len(m_popped)}

\* ------------------------------------------------ claims, slot-seq MPSC
SeqPopReturned == sc.pc = "idle" /\ sc.calls = 1

\* the payloads of the sequences 0 .. n-1 as they were pushed
GivenUpTo(n) == [i \in 1..n |-> sq_given[i - 1]]

\* C13: pushes with a seq, no sequence pushed twice: the k-th pop (k = 0, 1,
\* ...) returns the payload pushed with seq k, and the consumer has popped
\* exactly the sequences below expect_next_.
C13_PopsInSeqOrder ==
    /\ Len(sq_popped) = expect_next_
    /\ \A i \in 1..Len(sq_popped) :
          /\ sq_popped[i] = Payload(i - 1)
          /\ sq_popped[i] = sq_given[i - 1]

\* ... a thread pushed a later sequence before an earlier one, a push had to
\* wait for its slot, and every sequence was popped
C13_Witness ==
    /\ Len(sq_popped) = MaxSeqs
    /\ \E t \in 1..SeqProducers :
          /\ sp[t].spun
          /\ \E i, j \in DOMAIN sq_in.plan[t] : i < j /\ sq_in.plan[t][i] > sq_in.plan[t][j]

\* no step is possible any more: every thread has pushed all its sequences or
\* waits for a slot that is not writable, the consumer waits for a payload
SeqPusherDone(t) == sp[t].pc = "idle" /\ plan[t] = <<>>

SeqPusherStuck(t) ==
    sp[t].pc = "wait" /\ sp[t].spun /\ ~can_write_to_slot(sp[t].slot_idx, sp[t].seq)

SeqConsumerStuck ==
    sc.pc = "wait" /\ sc.spun /\ ~can_pop_slot(sc.slot_idx, sc.expect_seq)

SeqQuiescent ==
    /\ \A t \in Threads : SeqPusherDone(t) \/ SeqPusherStuck(t)
    /\ SeqConsumerStuck

SeqAllDelivered ==
    /\ \A t \in Threads : SeqPusherDone(t)
    /\ sq_popped = [i \in 1..MaxSeqs |-> Payload(i - 1)]

\* no thread pushes a sequence before one that is lower by SeqCapacity or more
PlanOrdered(pl) ==
    \A t \in Threads : \A i, j \in DOMAIN pl[t] :
        i < j => pl[t][j] > pl[t][i] - SeqCapacity

\* C14 as stated: the sequences 0..K-1 are pushed once each, in any order by
\* any threads: under fair scheduling all pushes return and the K pops
\* return the payloads of 0, 1, ..., K-1.
C14_AnyOrderDelivered == (sq_in.gap = -1) => <>SeqAllDelivered

\* C14 amended: ... pushed once each by threads none of which pushes a
\* sequence before one that is lower by N or more: under fair scheduling all
\* pushes return and the K pops return the payloads of 0, 1, ..., K-1.
C14_OrderedDelivered ==
    (sq_in.gap = -1 /\ PlanOrdered(sq_in.plan)) => <>SeqAllDelivered

\* ... K > N sequences, a thread pushed a later sequence before an earlier
\* one, all delivered
C14_Witness ==
    /\ sq_in.gap = -1 /\ PlanOrdered(sq_in.plan) /\ SeqQuiescent /\ SeqAllDelivered
    /\ MaxSeqs > SeqCapacity
    /\ \E t \in 1..SeqProducers :
          \E i, j \in DOMAIN sq_in.plan[t] : i < j /\ sq_in.plan[t][i] > sq_in.plan[t][j]

\* C15: sequence g is never pushed: expect_next_ never exceeds g, every
\* payload popped is that of a sequence below g, and when nothing moves any
\* more (no thread having pushed a sequence before one lower by N or more)
\* the consumer is waiting in pop for g.
C15_GapHoldsConsumer ==
    sq_in.gap >= 0 =>
        /\ expect_next_ <= sq_in.gap
        /\ \A i \in 1..Len(sq_popped) : sq_popped[i] = Payload(i - 1) /\ i - 1 < sq_in.gap
        /\ (SeqQuiescent /\ PlanOrdered(sq_in.plan)) =>
              (sc.expect_seq = sq_in.gap /\ expect_next_ = sq_in.gap)

\* ... the consumer waits for g while a later sequence lies published
C15_Witness ==
    /\ sq_in.gap >= 1 /\ SeqQuiescent /\ PlanOrdered(sq_in.plan)
    /\ expect_next_ = sq_in.gap
    /\ \E i \in 0..(SeqCapacity - 1) :
          /\ slots[i].seq > sq_in.gap
          /\ slots[i].seq = write_mask(slots[i].seq - 1)
          /\ BitAnd(slots[i].seq - 1, mask) = i
          /\ slots[i].data = Payload(slots[i].seq - 1)

\* sequence k has been drawn from global_seq by some push
Drawn(k) == k \in Seqs /\ sq_given[k] /= 0

\* the thread that drew sequence k
DrawnBy(k) == sq_given[k] \div (MaxSeqs + 1)

\* the payload of sequence k has been published (a slot's seq only grows)
Published(k) == slots[BitAnd(k, mask)].seq > k

\* C16: pushes without a seq only, any number of threads: the k-th pop
\* returns the payload written by the thread whose fetch-add on global_seq
\* returned k, so the payloads come out in the order of the fetch-adds.
C16_PopsInTicketOrder ==
    /\ Len(sq_popped) = expect_next_
    /\ expect_next_ <= global_seq
    /\ \A i \in 1..Len(sq_popped) : Drawn(i - 1) /\ sq_popped[i] = sq_given[i - 1]
    /\ \A t \in ImplicitThreads :
          sp[t].pc /= "idle" => sq_given[sp[t].seq] = sp[t].val /\ DrawnBy(sp[t].seq) = t

\* ... more threads than slots, a push had to wait for its slot, and the
\* payloads popped are not in the order of the threads
C16_Witness ==
    /\ Len(sq_popped) = MaxTickets
    /\ \E t \in ImplicitThreads : sp[t].spun
    /\ \E i, j \in 1..Len(sq_popped) :
          i < j /\ sq_popped[i] \div (MaxSeqs + 1) > sq_popped[j] \div (MaxSeqs + 1)
    /\ Cardinality({DrawnBy(k) : k \in {n \in Seqs : Drawn(n)}}) =
          Cardinality(ImplicitThreads)

\* C17: pushes without a seq, threads and consumer scheduled fairly: every
\* sequence drawn from global_seq is eventually published and the pop for it
\* eventually returns, also with more than N pushes outstanding: again and
\* again every sequence drawn so far has been published and popped and every
\* push has returned.
C17_ImplicitNeverStuck ==
    []<>(/\ expect_next_ = global_seq
         /\ \A k \in Seqs : Drawn(k) => Published(k)
         /\ \A t \in ImplicitThreads : sp[t].pc = "idle")

\* ... more than N sequences drawn and not popped, a push waiting for its
\* slot while the consumer waits for a payload
C17_Witness ==
    /\ global_seq - expect_next_ > SeqCapacity
    /\ \E t \in ImplicitThreads : sp[t].pc = "wait" /\ sp[t].spun /\ ~Published(sp[t].seq)
    /\ sc.pc = "wait" /\ sc.spun

\* the pop in progress, or the last one, has found no payload published for
\* its sequence
PopFoundEmpty == sc.spun

\* C18 as stated: a pop that finds no payload published for expect_next_
\* returns false, expect_next_ and the slot left as they were.
C18_EmptyPopReturnsFalse ==
    PopFoundEmpty =>
        /\ sc.pc = "idle" /\ sc.ret = FALSE
        /\ expect_next_ = sc.expect_seq
        /\ slots[sc.slot_idx].seq /= ReleasedSeq(sc.expect_seq)

\* C18 amended: a pop never returns false. One that finds no payload
\* published for expect_next_ waits, leaving expect_next_, size_ and the
\* slots alone (only pushes change them meanwhile), and once the payload is
\* published it returns true with it and expect_next_ goes up by one.
C18_EmptyPopWaits ==
    /\ SeqPopReturned => sc.ret = TRUE
    /\ sc.pc = "wait" =>
          /\ expect_next_ = sc_entry.expect_next_ /\ expect_next_ = sc.expect_seq
          /\ size_ >= sc_entry.size_
          /\ \A i \in DOMAIN slots : slots[i].seq >= sc_entry.slots[i].seq
          /\ slots[sc.slot_idx].seq \in {sc.expect_seq, write_mask(sc.expect_seq)}
          /\ sc.value = sc_entry.value
    /\ (PopFoundEmpty /\ SeqPopReturned) =>
          /\ Drawn(sc.expect_seq) /\ sc.value = sq_given[sc.expect_seq]
          /\ expect_next_ = sc.expect_seq + 1
          /\ slots[sc.slot_idx].seq >= ReleasedSeq(sc.expect_seq)

\* ... a pop called with nothing published for expect_next_ has waited and
\* returned true
C18_Witness ==
    /\ SeqPopReturned /\ PopFoundEmpty /\ ~sc_entry.ready /\ sc_entry.size_ = 0
    /\ sc.ret = TRUE /\ sc.value = Payload(sc.expect_seq)

RingPushReturned(t, r) == rp[t].pc = "idle" /\ rp[t].calls = 1 /\ rp[t].ret = r

RingPopReturned(r) == rc.pc = "idle" /\ rc.calls = 1 /\ rc.ret = r

\* thread t holds a claimed position it has not published yet
RingHolds(t) == rp[t].pc \in {"write", "publish"}

\* C19: threads pushing, one consumer popping: no position is claimed by two
\* pushes, the pops return the values of the claimed positions 0, 1, ... in
\* that order, each once, each the value of a push that returned true, and
\* when the ring is drained with no push in progress every push that
\* returned true has been popped.
C19_EachPushPoppedOnce ==
    /\ Len(r_claim) = tail_ /\ Len(r_popped) = head_ /\ head_ <= tail_
    /\ \A t, u \in RingThreads :
          (t /= u /\ RingHolds(t) /\ RingHolds(u)) =>
              rp[t].pos /= rp[u].pos /\ rp[t].index /= rp[u].index
    /\ \A t \in RingThreads : RingHolds(t) => r_claim[rp[t].pos + 1] = rp[t].val
    /\ \A i \in 1..Len(r_popped) : r_popped[i] = r_claim[i] /\ r_popped[i] \in r_returned
    /\ \A i, j \in 1..Len(r_claim) : i /= j => r_claim[i] /= r_claim[j]
    /\ r_returned \subseteq Range(r_claim)
    /\ r_returned = UNION {{RVal(t, i) : i \in 1..r_sent[t]} : t \in RingThreads}
    /\ (head_ = tail_ /\ \A t \in RingThreads : rp[t].pc = "idle") =>
          Range(r_popped) = r_returned

\* ... two threads went for the same position and one lost the claim, the
\* ring was full for a push, and everything pushed has been popped, the
\* values of the threads mixed
C19_Witness ==
    /\ head_ = tail_ /\ tail_ > RingCapacity
    /\ \A t \in RingThreads : RingPushReturned(t, TRUE) /\ r_sent[t] = r_limit
    /\ RingPopReturned(TRUE)
    /\ \E t \in RingThreads : tls_cached_head_[t] > 0
    /\ \E i \in 1..(Len(r_popped) - 2) :
          /\ r_popped[i] \div (MaxRingItems + MaxSingleItems + 1) =
                r_popped[i + 2] \div (MaxRingItems + MaxSingleItems + 1)
          /\ r_popped[i] \div (MaxRingItems + MaxSingleItems + 1) /=
                r_popped[i + 1] \div (MaxRingItems + MaxSingleItems + 1)

\* the latest call was a push of thread t, a pop, and has returned r
LastPushReturned(t, r) == r_last = t /\ RingPushReturned(t, r)

LastPopReturned(r) == r_last = 0 /\ RingPopReturned(r)

\* C20: the ring used from one thread: a push returns false exactly when
\* capacity() - 1 elements are in the ring (so from empty capacity() - 1
\* pushes return true and the next returns false), the pops return the
\* values in the order of the pushes, and a pop returns false exactly when
\* the ring is empty, empty() being true then; in every fill and drain
\* cycle alike.
C20_SingleThreadFillDrain ==
    /\ head_ <= tail_ /\ ring_size <= ring_capacity - 1
    /\ LastPushReturned(1, TRUE) => ring_size >= 1
    /\ LastPushReturned(1, FALSE) => ring_size = ring_capacity - 1
    /\ Len(r_popped) = head_
    /\ \A i \in 1..Len(r_popped) : r_popped[i] = RVal(1, i)
    /\ LastPopReturned(TRUE) => rc.value = RVal(1, head_)
    /\ LastPopReturned(FALSE) => ring_empty /\ ring_size = 0 /\ head_ = r_sent[1]

\* ... the second fill met the full ring and the second drain the empty one
C20_Witness ==
    /\ LastPopReturned(FALSE)
    /\ head_ = 2 * RingCapacity /\ tail_ = head_
    /\ tls_cached_head_[1] = RingCapacity
    /\ r_popped = [i \in 1..(2 * (ring_capacity - 1)) |-> RVal(1, i)]

\* the thread that pushes value v
RingOwner(v) == v \div (MaxRingItems + MaxSingleItems + 1)

\* the values of thread t in the sequence vs, in order
RingOf(t, vs) == SelectSeq(vs, LAMBDA v : RingOwner(v) = t)

\* the first n values thread t pushes
RingStream(t, n) == [i \in 1..n |-> RVal(t, i)]

\* C21: the ring with claimed positions: the pops return the values in the
\* order in which their pushes won the compare-exchange on tail_; the values
\* of each thread are claimed and popped in the order the thread pushed
\* them, so with one thread pushing the pops return its values in push
\* order.
C21_PoppedInClaimOrder ==
    /\ \A i \in 1..Len(r_popped) : i <= Len(r_claim) /\ r_popped[i] = r_claim[i]
    /\ \A t \in RingThreads :
          /\ RingOf(t, r_claim) = RingStream(t, Len(RingOf(t, r_claim)))
          /\ RingOf(t, r_popped) = RingStream(t, Len(RingOf(t, r_popped)))
          /\ (\A i \in 1..Len(r_claim) : RingOwner(r_claim[i]) = t) =>
                r_popped = RingStream(t, Len(r_popped))

\* ... every value of every thread popped, the consumer popping while the
\* threads pushed, a later caller's value ahead of an earlier one's
C21_Witness ==
    /\ Len(r_popped) = Cardinality(RingThreads) * r_limit
    /\ \A t \in RingThreads : Len(RingOf(t, r_popped)) = r_limit
    /\ RingOwner(r_popped[1]) = 2 /\ RingOwner(r_popped[2]) = 1
    /\ RingOwner(r_popped[Len(r_popped)]) = 2
    /\ RingPopReturned(TRUE)

\* elements in the SPSC ring: accepted and not yet popped
InRing == Len(accepted) - Len(popped)

\* C28: the SPSC ring under any interleaving of push, pop, push_bulk and
\* pop_bulk: the number of elements accepted minus the number popped is in
\* 0..N-1 and is (head - tail) mod N.
C28_FillIsHeadMinusTail ==
    /\ InRing \in 0..(q.cap - 1)
    /\ InRing = (q.head - q.tail) % q.cap
    /\ q.head \in 0..(q.cap - 1) /\ q.tail \in 0..(q.cap - 1)

\* ... the ring full with head wrapped below tail, bulk and single calls on
\* both sides
C28_Witness ==
    /\ InRing = q.cap - 1 /\ q.head < q.tail
    /\ p.pc = "idle" /\ p.op = "push" /\ p.ret
    /\ c.pc = "idle" /\ c.op = "pop_bulk" /\ c.ret /\ c.cnt >= 2
    /\ p_entry.size = q.cap - 2

\* the cells of the published range [tail, head)
PublishedCells == {(q.tail + j) % q.cap : j \in 0..(((q.head - q.tail) % q.cap) - 1)}

\* the cells the producer's call in progress is about to write
ProducerCells ==
    IF p.pc = "push_write" THEN {p.head}
    ELSE IF p.pc = "bulk_write"
    THEN {BulkCell(q, p.head, p.can_write, j) : j \in p.i..(p.can_write - 1)}
    ELSE {}

\* the cells the consumer's call in progress is about to read
ConsumerCells ==
    IF c.pc = "pop_read" THEN {c.tail}
    ELSE IF c.pc = "bulk_read"
    THEN {BulkCell(q, c.tail, c.can_read, j) : j \in c.i..(c.can_read - 1)}
    ELSE {}

\* C29: the SPSC ring: the producer writes only cells outside the published
\* range [tail, head), the consumer reads only cells inside it, in single and
\* bulk calls, and no cell is about to be written and read at once.
C29_NoCellShared ==
    /\ ProducerCells \cap PublishedCells = {}
    /\ ConsumerCells \subseteq PublishedCells
    /\ ProducerCells \cap ConsumerCells = {}
    /\ ProducerCells \subseteq 0..(q.cap - 1)

\* ... a bulk push and a bulk pop copying at the same time, the cells of the
\* push wrapping round the end of the array
C29_Witness ==
    /\ p.pc = "bulk_write" /\ c.pc = "bulk_read"
    /\ Cardinality(ProducerCells) >= 2 /\ ConsumerCells /= {}
    /\ Cardinality(ProducerCells) + Cardinality(ConsumerCells) = q.cap - 1
    /\ 0 \in ProducerCells /\ (q.cap - 1) \in ProducerCells

\* the slot sequences of the slot-seq queue
SlotSeqs == [i \in DOMAIN slots |-> slots[i].seq]

\* every slot i holds i + k*n or i + k*n + 1, for a k >= 0
SeqShape(f, n) == \A i \in DOMAIN f : f[i] >= i /\ (f[i] - i) % n \in {0, 1}

\* slot i keeps its sequence, or a push publishes it (i + k*n to i + k*n + 1),
\* or the consumer releases it (i + k*n + 1 to i + (k + 1)*n)
SeqMove(f, g, n, pushers_same, consumer_same) ==
    \A i \in DOMAIN f :
        \/ g[i] = f[i]
        \/ (f[i] - i) % n = 0 /\ g[i] = f[i] + 1 /\ consumer_same
        \/ (f[i] - i) % n = 1 /\ g[i] = f[i] + n - 1 /\ pushers_same

C30_Shape ==
    /\ SeqShape(SlotSeqs, SlotCount)
    /\ SeqShape(sequences_, RingSlots)

C30_Move ==
    /\ SeqMove(SlotSeqs, SlotSeqs', SlotCount, sp' = sp, sc' = sc)
    /\ SeqMove(sequences_, sequences_', RingSlots, rp' = rp, rc' = rc)

\* C30: both queues with slot sequences, no sequence pushed twice: slot i
\* of N always holds i + k*N or i + k*N + 1 for a k >= 0, its sequence never
\* decreases, and it moves only from i + k*N to i + k*N + 1, when a push
\* publishes, and from i + k*N + 1 to i + (k + 1)*N, when the consumer
\* releases.
C30_SlotSeqStates == [](C30_Shape) /\ [][C30_Move]_vars

\* ... of the slot-seq queue one slot published in its second round, one
\* released after its first, one published in its first
C30_Witness ==
    /\ r_limit = 0
    /\ \E i, j, k \in DOMAIN slots :
          /\ slots[i].seq = i + SlotCount + 1
          /\ slots[j].seq = j + SlotCount
          /\ slots[k].seq = k + 1
    /\ \E t \in Threads : sp[t].spun

\* ----------------------------------------------------- claims, Reorderer
\* the messages staged in the two buffers
StagedFast == {i \in DOMAIN fast_buffer_ : fast_buffer_[i].valid}

Staged == Cardinality(StagedFast) + Cardinality(overflow_buffer_)

\* the run 0, 1, ..., n - 1
Run(n) == [i \in 1..n |-> i - 1]

\* C22: at every moment, also after stop has been set while the output queue
\* was full, the sequences pushed into the output queue so far are 0, 1, 2,
\* ... : each is one greater than the one pushed before it.
C22_OutputConsecutive == out_pushed = Run(Len(out_pushed))

\* the sequence pushed into the output queue last (-1: none yet)
LastPushed == IF out_pushed = <<>> THEN -1 ELSE out_pushed[Len(out_pushed)]

\* C27: while stop is false, next_expected_seq_ goes from s to s + 1 only
\* when s is the sequence pushed into the output queue last; a worker whose
\* push failed on the full output queue pushes the same message again and
\* leaves next_expected_seq_, the staging buffers and the message alone.
C27_Step ==
    /\ (~stop_ /\ next_expected_seq_' /= next_expected_seq_) =>
          /\ next_expected_seq_' = next_expected_seq_ + 1
          /\ LastPushed = next_expected_seq_
    /\ (~stop_ /\ rw.pc = "output_stop" /\ rw' /= rw) =>
          /\ rw'.pc = "output" /\ rw'.data = rw.data
          /\ UNCHANGED <<next_expected_seq_, fast_buffer_, overflow_buffer_,
                         out_pushed, source_queue_>>

C27_AdvanceOnlyAfterPush == [][C27_Step]_vars

\* ... the worker had to wait for room in the output queue, then pushed
\* the message and advanced, stop not being set
C27_Witness ==
    /\ ~stop_
    /\ rw.pc = "drain" /\ rw.spun
    /\ next_expected_seq_ >= 2
    /\ LastPushed = next_expected_seq_ - 1

\* C24: process_data with a message whose seq is below next_expected_seq_
\* returns with next_expected_seq_, the fast buffer, the overflow buffer and
\* the output queue as they were, and with nothing pushed: the message is
\* dropped.
C24_Step ==
    (rw.pc = "process" /\ rw.data < next_expected_seq_ /\ rw' /= rw) =>
        /\ rw'.pc = "drain"
        /\ UNCHANGED <<next_expected_seq_, fast_buffer_, overflow_buffer_,
                       output_queue_, out_pushed, direct_hit_count_>>

C24_LateDropped == [][C24_Step]_vars

\* ... a late message has just been dropped while another message is staged
\* and the late message's own slot of the fast buffer is free
C24_Witness ==
    /\ rw.pc = "drain" /\ rw.kind = "late"
    /\ rw.data < next_expected_seq_
    /\ ~fast_buffer_[SlotIdx(rw.data)].valid
    /\ StagedFast /= {}

BetweenMessages == rw.pc \in {"loop", "pop_source", "done"}

\* C25: when the source queue delivers each of 0 .. K-1 once and the worker
\* is between two messages, processed_count_ is direct_hit_count_ +
\* l1_cached_count_ + l2_cached_count_ + the number of messages staged in the
\* fast and the overflow buffer; once all K have been emitted it is the sum
\* of the three counters.
C25_CountersBalance ==
    (reo_in = MaxStream /\ BetweenMessages) =>
        /\ processed_count_ =
               direct_hit_count_ + l1_cached_count_ + l2_cached_count_ + Staged
        /\ next_expected_seq_ = MaxStream =>
               processed_count_ =
                   direct_hit_count_ + l1_cached_count_ + l2_cached_count_

\* ... all messages emitted, some directly, some from either buffer
C25_Witness ==
    /\ reo_in = MaxStream /\ BetweenMessages
    /\ out_pushed = Run(MaxStream)
    /\ direct_hit_count_ > 0 /\ l1_cached_count_ > 0 /\ l2_cached_count_ > 0
    /\ processed_count_ = MaxStream

\* C26: once stop is set the worker leaves reorder_work after finitely many
\* steps of its own and the join of the destructor returns, also when the
\* output queue is full and nobody calls get_next and when the source queue
\* and the staging buffers hold messages.
C26_WorkerLeaves == []<>(stop_ => (rw.pc = "done" /\ dtor = "joined"))

\* ... the worker has left with the output queue full and never read, a push
\* given up, and messages left in the source queue and in a staging buffer
C26_Witness ==
    /\ dtor = "joined" /\ rw.pc = "done"
    /\ got = <<>>
    /\ nextIndex(output_queue_, output_queue_.head) = output_queue_.tail
    /\ next_expected_seq_ > Len(out_pushed)
    /\ source_queue_ /= <<>>
    /\ Staged > 0

AllDelivered ==
    /\ got = Run(MaxStream)
    /\ next_expected_seq_ = MaxStream
    /\ \A i \in DOMAIN fast_buffer_ :
          fast_buffer_[i].valid => fast_buffer_[i].seq >= MaxStream

\* C23: stop not set, the worker and the thread calling get_next scheduled
\* again and again: whatever the order in which the source queue delivers
\* 0 .. K-1, each at least once, get_next returns 0, 1, ..., K-1 in this order
\* and nothing else, and in the end all K have been returned,
\* next_expected_seq_ is K and no slot of the fast buffer is valid with a
\* sequence below K.
C23_InOrderDelivered == [](IsPrefix(got, Run(MaxStream))) /\ <>[]AllDelivered

\* ... all delivered although one message came twice and messages went
\* through both staging buffers
C23_Witness ==
    /\ AllDelivered
    /\ reo_in = MaxStream + 1 /\ processed_count_ = reo_in
    /\ l1_cached_count_ > 0 /\ l2_cached_count_ > 0
    /\ rw.spun

Dist(a, b) == IF a >= b THEN a - b ELSE b - a

\* C34: process_data staging a message with seq s above next_expected_seq_,
\* i = s mod B: an invalid slot i takes the message; a slot i that holds s
\* stays as it is, and so does the overflow buffer; a slot i that holds
\* another seq t holds afterwards the one of s and t that is closer to
\* next_expected_seq_, the other one is a key of the overflow buffer, and no
\* key leaves the overflow buffer.
C34_Step ==
    (rw.pc = "process" /\ rw.data > next_expected_seq_ /\ rw' /= rw) =>
        LET s == rw.data
            i == s % FastSize
            t == fast_buffer_[i].seq
            near == IF Dist(s, next_expected_seq_) < Dist(t, next_expected_seq_)
                    THEN s ELSE t
            far == IF near = s THEN t ELSE s
        IN  /\ \A j \in DOMAIN fast_buffer_ : j /= i => fast_buffer_'[j] = fast_buffer_[j]
            /\ overflow_buffer_ \subseteq overflow_buffer_'
            /\ IF ~fast_buffer_[i].valid
               THEN /\ fast_buffer_'[i] = [valid |-> TRUE, seq |-> s]
                    /\ overflow_buffer_' = overflow_buffer_
               ELSE IF t = s
               THEN UNCHANGED <<fast_buffer_, overflow_buffer_>>
               ELSE /\ fast_buffer_'[i] = [valid |-> TRUE, seq |-> near]
                    /\ overflow_buffer_' = overflow_buffer_ \cup {far}

C34_StagingKeepsBoth == [][C34_Step]_vars

\* ... the message just staged took the slot of a message farther away,
\* which is now in the overflow buffer
C34_Witness ==
    /\ rw.pc = "drain" /\ rw.kind = "staged"
    /\ fast_buffer_[SlotIdx(rw.data)] = [valid |-> TRUE, seq |-> rw.data]
    /\ \E t \in overflow_buffer_ : t > rw.data /\ SlotIdx(t) = SlotIdx(rw.data)

\* C35: whatever the source queue delivers, repeated sequences included,
\* whenever the worker is between two messages every key of the overflow
\* buffer is above next_expected_seq_ and is not the seq of a valid slot of
\* the fast buffer.
C35_OverflowDisjoint ==
    BetweenMessages =>
        \A k \in overflow_buffer_ :
            /\ k > next_expected_seq_
            /\ \A i \in StagedFast : fast_buffer_[i].seq /= k

\* ------------------------------------------- claims, SPSC cached indices
\* cells the producer may fill / the consumer may read, counted from an index
FreeFrom(tail) == (q.cap + tail - q.head - 1) % q.cap

ReadableFrom(head) == (q.cap + head - q.tail) % q.cap

C38_Counts ==
    /\ FreeFrom(q.cached_tail) <= FreeFrom(q.tail)
    /\ ReadableFrom(q.cached_head) <= ReadableFrom(q.head)

C38_Steps ==
    /\ q'.head /= q.head =>
           (q.cap + q'.head - q.head) % q.cap <= FreeFrom(q.cached_tail)
    /\ q'.tail /= q.tail =>
           (q.cap + q'.tail - q.tail) % q.cap <= ReadableFrom(q.cached_head)

\* C38: SPSC ring under every interleaving of push, push_bulk, pop and
\* pop_bulk: the free cells counted from cached_tail are never more than
\* those counted from tail, the readable cells counted from cached_head never
\* more than those counted from head; a store of head advances it by no more
\* than the free cells counted from cached_tail, a store of tail by no more
\* than the readable cells counted from cached_head.
C38_CachedIndicesSafe == [](C38_Counts) /\ [][C38_Steps]_vars

\* ... both cached indices behind the real ones after bulk calls on a ring
\* that has wrapped
C38_Witness ==
    /\ FreeFrom(q.cached_tail) < FreeFrom(q.tail)
    /\ ReadableFrom(q.cached_head) < ReadableFrom(q.head)
    /\ p.op = "push_bulk" /\ p.cnt >= 2
    /\ c.op = "pop_bulk" /\ c.cnt >= 1
    /\ Len(accepted) > q.cap

\* ------------------------------------------------ claims, ring MPSC pop
\* position pos has been claimed by a push that has not published it yet
ClaimedUnpublished(pos) ==
    \E t \in RingThreads : rp[t].pc \in {"write", "publish"} /\ rp[t].pos = pos

C33_Step ==
    /\ (rc.pc = "loadseq" /\ rc' /= rc /\ ClaimedUnpublished(rc.pos)) =>
          /\ rc'.pc = "idle" /\ ~rc'.ret /\ rc'.value = rc.value
          /\ UNCHANGED <<head_, tail_, sequences_, buffer_, r_popped>>
    /\ (rc.pc = "idle" /\ rc'.pc = "loadseq") => rc'.pos = head_
    /\ head_' /= head_ =>
          /\ head_' = head_ + 1 /\ rc.pos = head_
          /\ ~ClaimedUnpublished(head_)
          /\ head_ < Len(r_claim) /\ r_claim[head_ + 1] \in r_returned
          /\ r_popped' = Append(r_popped, r_claim[head_ + 1])

\* C33: ring MPSC pop: while the slot at head_ is claimed by a push that has
\* not published it, pop returns false and leaves head_, tail_, the slot
\* sequences, the buffer and the caller's variable as they were, also when a
\* later position is published; a pop reads position head_ only, and head_
\* advances by one, past a position that was published, whose value the pop
\* returns.
C33_PopWaitsForHead == [][C33_Step]_vars

\* ... a pop has just returned false: position head_ is claimed and not
\* published, the position after it is published
C33_Witness ==
    /\ rc.pc = "idle" /\ rc.calls = 1 /\ ~rc.ret /\ r_last = 0
    /\ ClaimedUnpublished(head_)
    /\ sequences_[RingIndex(head_ + 1)] = head_ + 2

\* ----------------------------------------- claims, ring MPSC push when full
\* the ring holds RingSlots unconsumed elements for the position of t's push
\* and the slot of that position has not been released
FullFor(t) ==
    /\ tail_ - head_ >= RingSlots
    /\ rp[t].pos - head_ >= RingSlots
    /\ sequences_[RingIndex(rp[t].pos)] < rp[t].pos

C40_Step ==
    \A t \in RingThreads :
        /\ (rp[t].pc = "loadseq" /\ rp'[t] /= rp[t] /\ FullFor(t)) =>
               rp'[t].pc = "refresh"
        /\ (rp[t].pc = "refresh" /\ rp'[t] /= rp[t] /\ FullFor(t)) =>
               (rp'[t].pc = "idle" /\ ~rp'[t].ret /\ rp'[t].calls = 1)

\* C40: ring MPSC: a push that finds the ring full (RingSlots unconsumed
\* elements, the slot of its position not released) does not go round its
\* loop: after loading the slot's sequence it loads head_, and with the ring
\* still full it returns false - three steps of the caller from the entry of
\* the call; also when tls_cached_head_ holds the head of another queue of
\* the type.
C40_FullPushReturns == [][C40_Step]_vars

\* ------------------------------------- claims, slot-seq MPSC cell access
\* thread t is between the load that found slot seq & mask holding its seq
\* and its store of seq + 1; the consumer is between the load that found its
\* slot published and its store of the released seq
HoldsCell(t) == sp[t].pc \in {"write", "count", "publish"}

ConsumerHoldsCell == sc.pc \in {"read", "count", "release"}

\* C31: slot-seq MPSC, each sequence pushed at most once: while a pushing
\* thread is between observing its sequence in its slot and storing the
\* published mark, no other thread holds or writes that slot and the
\* consumer does not read it; while the consumer reads a slot no thread
\* writes it.
C31_ExclusiveCell ==
    \A t \in Threads :
        HoldsCell(t) =>
            /\ \A u \in Threads \ {t} :
                   ~(HoldsCell(u) /\ sp[u].slot_idx = sp[t].slot_idx)
            /\ ~(ConsumerHoldsCell /\ sc.slot_idx = sp[t].slot_idx)

\* ... the consumer reads a slot another thread is already waiting for,
\* while a thread writes the other slot
C31_Witness ==
    /\ sc.pc = "read"
    /\ \E t, u \in Threads :
          /\ sp[t].pc = "write" /\ sp[t].slot_idx /= sc.slot_idx
          /\ sp[u].pc = "wait" /\ sp[u].spun /\ sp[u].slot_idx = sc.slot_idx
          /\ sp[u].seq = sc.expect_seq + SlotCount

\* sequences not yet released by the consumer whose payload is in its slot
WrittenUnconsumed ==
    {k \in DOMAIN sq_given :
        /\ k >= expect_next_
        /\ \/ slots[BitAnd(k, mask)].seq = write_mask(k)
           \/ \E t \in Threads : sp[t].seq = k /\ sp[t].pc \in {"count", "publish"}}

C32_Window == Cardinality(WrittenUnconsumed) <= SlotCount

C32_Step ==
    \A t \in Threads :
        /\ (sp[t].pc = "write" /\ sp'[t].pc = "count" /\ sp[t].seq >= SlotCount) =>
               /\ expect_next_ > sp[t].seq - SlotCount
               /\ Len(sq_popped) > sp[t].seq - SlotCount
               /\ sq_popped[sp[t].seq - SlotCount + 1] = sq_given[sp[t].seq - SlotCount]
        /\ (sp[t].pc = "wait" /\ sp'[t] /= sp[t]
              /\ expect_next_ <= sp[t].seq /\ sp[t].seq < expect_next_ + SlotCount) =>
               sp'[t].pc = "write"

\* C32: slot-seq MPSC with N slots, sequences pushed by their own number,
\* more than N of them: the push of c >= N writes its payload only when the
\* consumer has released c - N and returned its payload; at most N
\* payloads are written and not consumed; a push of c with expect_next_ <=
\* c < expect_next_ + N goes on to write at its first look at the slot.
C32_WritesWithinWindow == [](C32_Window) /\ [][C32_Step]_vars

\* ... a push of a sequence of the second round has written after waiting
\* for the consumer, with N payloads now unconsumed
C32_Witness ==
    /\ \E t \in Threads :
          sp[t].pc = "count" /\ sp[t].seq >= SlotCount /\ sp[t].spun
    /\ Cardinality(WrittenUnconsumed) = SlotCount

\* ------------------------------- claims, sharded MPSC shard assignment
\* threads that have drawn a shard of this queue
HasShard == {t \in 1..nthreads : queue_assigned_[t]}

\* how many of the draws 0 .. n-1 land on shard s
DrawsOn(s, n) == Cardinality({r \in 0..(n - 1) : r % MaxProducers = s})

C36_Draws ==
    /\ Cardinality(HasShard) = producer_counter_
    /\ \A s \in Shards :
          Cardinality({t \in HasShard : my_queue_id_[t] = s}) = DrawsOn(s, producer_counter_)
    /\ producer_counter_ = MaxProducers + 1 =>
          \E t, u \in HasShard : t /= u /\ my_queue_id_[t] = 0 /\ my_queue_id_[u] = 0

C36_Step ==
    \A t \in 1..nthreads :
        /\ (~queue_assigned_[t] /\ queue_assigned_'[t]) =>
              /\ my_queue_id_'[t] = producer_counter_ % MaxProducers
              /\ producer_counter_' = producer_counter_ + 1
        /\ queue_assigned_[t] =>
              (queue_assigned_'[t] /\ my_queue_id_'[t] = my_queue_id_[t])

\* C36: MaxProducers + 1 pushing threads: the thread that draws r from
\* producer_counter_ uses shard r mod MaxProducers from then on, so once all
\* have drawn two threads share shard 0 (the first and the last to draw).
\* The state in which a push that returned true is lost is C36_Witness.
C36_ShardsWrap == [](C36_Draws) /\ [][C36_Step]_vars

\* ... all threads have finished, pop found every shard empty, and a value
\* whose push returned true has not come out
C36_Witness ==
    /\ MPopReturned(FALSE) /\ mc_entry.after_stop
    /\ \A s \in Shards : empty(queues_[s])
    /\ \E t \in 1..nthreads : \E i \in 1..Len(m_accepted[t]) :
          /\ my_queue_id_[t] = 0
          /\ \A j \in 1..Len(m_popped) : m_popped[j] /= m_accepted[t][i]

\* threads that have called push on this queue
Pushing == {t \in 1..nthreads : mp[t].pc /= "idle" \/ mp[t].calls = 1}

\* C37: at most MaxProducers threads push to this queue: no two of them use
\* the same shard of it, also when they have pushed to other queues of the
\* same type before.
C37_OwnShard ==
    \A t, u \in Pushing : t /= u => ShardOf(t) /= ShardOf(u)

\* ... all MaxProducers threads are inside push at once
C37_Witness == \A t \in 1..nthreads : mp[t].pc = "push_write"

\* ----------------------------------------- claims, SeqMpsc pipeline shutdown
\* consume thread i spins in queue_.push on a full shard nobody empties
ConsumeStuck(i) ==
    /\ ct[i].pc = "fwd" /\ ct[i].shard >= 0
    /\ IsFull(queue_.shards[ct[i].shard])
    /\ reorder_blocked

\* the produce thread spins in push_to_spsc_ on a full queue whose consume
\* thread has left its loop or is itself stuck
ProduceStuck ==
    /\ pt.pc = "push"
    /\ IsFull(spsc_queues_[SpscOf(pt.global_seq)])
    /\ LET k == SpscOf(pt.global_seq)
       IN  ct[k].pc = "done" \/ ConsumeStuck(k)

\* C39: once ~SeqMpsc has set stop_, the produce thread and every consume
\* thread can still leave its loop, so that the joins return: none of them
\* spins in a loop that no step of any thread ends, also with the output
\* queue, the shards of queue_ and the SPSC queues full.
C39_LoopsEndAfterStop ==
    pipeline_stop_ => (~ProduceStuck /\ \A i \in Workers : ~ConsumeStuck(i))

==============================================================================
